---- MODULE Spec2Model ----
(***************************************************************************)
(* Verification model of oakCameraDGPSLogger: the capture policy loop,    *)
(* the camera acquisition loop, the GPS reader loop, the UI commands of    *)
(* MainApplication and the persistence sink of StorageManager.             *)
(*                                                                         *)
(* The specifications share the variables of this module:                  *)
(*   StorageSpec    calls StorageManager.save_frames_with_metadata on a    *)
(*                  file system, with every combination of write failures; *)
(*   LifecycleSpec  runs the UI commands and the background threads of     *)
(*                  MainApplication, CameraManager and GPSManager with     *)
(*                  the clock stopped;                                     *)
(*   PolicySpec     runs the capture policy with the clock running and a   *)
(*                  moving receiver, without video recording;              *)
(*   CaptureSpec    runs manual captures next to the capture policy, with  *)
(*                  a camera that can fail to open and queues that can be  *)
(*                  empty when they are read;                              *)
(*   MotionSpec     calls MainApplication.check_motion with sequences of   *)
(*                  fixes;                                                 *)
(*   MaskSpec       runs one session with the mask command, video          *)
(*                  recording and captures;                                *)
(*   RestartSpec    starts and stops the system without waiting for the    *)
(*                  loops of the session before (RestartFairSpec: every    *)
(*                  thread keeps taking its steps);                        *)
(*   RecoverySpec   switches the location source off inside a tick;        *)
(*   ConfigSpec     passes interval entries through the start flow;        *)
(*   SwitchSpec     selects the interval type while the system runs;       *)
(*   ReaderSpec     feeds the GPS reader valid and unusable sentences;     *)
(*   SharedSpec     runs the two writer loops next to all their readers;   *)
(*   FlowSpec       runs the start flow of the UI (start_system, then      *)
(*                  toggle_recording) and stop_system;                     *)
(*   NamingSpec     persists bundles one after the other and keeps the     *)
(*                  file names as strings;                                 *)
(*   DistanceSpec   calls GPSManager.calculate_distance on whole degrees;  *)
(*   DriftSpec      runs the distance mode with a receiver that moves away *)
(*                  from the positions the policy measures from            *)
(*                  (DriftFairSpec: the policy loop keeps ticking);        *)
(*   SessionSpec    runs sessions one after the other with manual capture  *)
(*                  requests in every idle state.                          *)
(***************************************************************************)
EXTENDS Integers, Sequences, FiniteSets, TLC

\* Python's None where the other values are strings
None == "None"

(***************************************************************************)
(* Bounds of the model.                                                    *)
(***************************************************************************)
\* number of faulty writes injected into one save_frames_with_metadata call
MaxFaults == 2
\* number of save_frames_with_metadata calls of a StorageSpec behaviour
MaxSaves == 1
\* calendar dates 0..MaxDate and sub-second stamps 0..MaxUsec of a timestamp
MaxDate == 1
MaxUsec == 1
\* number of save_frames_with_metadata calls of a NamingSpec behaviour
MaxBundles == 2

(***************************************************************************)
(* StorageManager (src/storage_manager.py)                                 *)
(***************************************************************************)
\* the keys of a frame bundle, in the order main.py inserts them in the dict
StreamOrder == <<"rgb", "depth", "depth_raw", "ir">>
Streams == {StreamOrder[i] : i \in 1..Len(StreamOrder)}

\* a frame bundle maps each stream to "absent" (key not in the dict),
\* None (key present, value None) or "frame" (a numpy array)
Bundles == [Streams -> {"absent", None, "frame"}]

\* datetime values: a calendar date and the time of day at microsecond resolution
Timestamps == [date : 0..MaxDate, usec : 0..MaxUsec]

\* the ways one write of a bundle can go wrong:
\*   image_raise   cv2.imwrite raises, nothing is written
\*   image_silent  cv2.imwrite returns False, nothing is written, no exception
\*   meta_open     open(json_path, 'w') raises, no file is created
\*   meta_dump     json.dump / close raises after the file was created
FaultKinds == {"image_raise", "image_silent", "meta_open", "meta_dump"}
Faults == Streams \X FaultKinds
FaultSets == {fs \in SUBSET Faults : Cardinality(fs) <= MaxFaults}

\* save_frame: the extension chosen for a frame type
Extension(frame_type) ==
    IF frame_type \in {"depth_raw", "depth"} THEN "png" ELSE "jpg"

\* save_frame: os.path.join(self.current_path, f"{frame_type}_{timestamp:%Y%m%d_%H%M%S_%f}.ext")
ImagePath(current_path, frame_type, timestamp) ==
    [dir |-> current_path, stream |-> frame_type, stamp |-> timestamp,
     ext |-> Extension(frame_type)]

\* filepath.rsplit('.', 1)[0] + '.json'
JsonPath(filepath) == [filepath EXCEPT !.ext = "json"]

\* save_frame(frame, frame_type, timestamp) on file system d:
\* the file system afterwards, the path returned, and whether it raised
SaveFrame(d, current_path, frame_type, timestamp, faults) ==
    LET fp == ImagePath(current_path, frame_type, timestamp) IN
    IF <<frame_type, "image_raise">> \in faults
    THEN [disk |-> d, path |-> fp, raised |-> TRUE]
    ELSE IF <<frame_type, "image_silent">> \in faults
    THEN [disk |-> d, path |-> fp, raised |-> FALSE]
    ELSE [disk |-> d \cup {fp}, path |-> fp, raised |-> FALSE]

\* save_metadata(metadata, filepath) on file system d
SaveMetadata(d, filepath, faults) ==
    IF <<filepath.stream, "meta_open">> \in faults
    THEN [disk |-> d, raised |-> TRUE]
    ELSE IF <<filepath.stream, "meta_dump">> \in faults
    THEN [disk |-> d \cup {JsonPath(filepath)}, raised |-> TRUE]
    ELSE [disk |-> d \cup {JsonPath(filepath)}, raised |-> FALSE]

\* the except branch of save_frames_with_metadata: for fp in saved_files:
\* os.remove(fp), then the json sibling if it exists; an os.remove that
\* raises (file missing) skips the rest of that iteration (bare except: pass)
\* a cleanup that removes the image files and leaves their json siblings
RECURSIVE CleanupImagesOnly(_, _, _)
CleanupImagesOnly(d, saved_files, i) ==
    IF i > Len(saved_files) THEN d
    ELSE CleanupImagesOnly(d \ {saved_files[i]}, saved_files, i + 1)

RECURSIVE Cleanup(_, _, _)
Cleanup(d, saved_files, i) ==
    IF i > Len(saved_files) THEN d
    ELSE LET fp == saved_files[i] IN
         IF fp \in d
         THEN Cleanup((d \ {fp}) \ {JsonPath(fp)}, saved_files, i + 1)
         ELSE Cleanup(d, saved_files, i + 1)

\* the try body of save_frames_with_metadata from the i-th key of the dict on;
\* failed names the call that raised (ghost: the code only re-raises)
RECURSIVE SaveLoop(_, _, _, _, _, _, _)
SaveLoop(d, frames, current_path, timestamp, faults, saved_files, i) ==
    IF i > Len(StreamOrder)
    THEN [disk |-> d, saved_files |-> saved_files, raised |-> FALSE,
          failed |-> <<>>]
    ELSE LET ft == StreamOrder[i] IN
         IF frames[ft] # "frame"
         THEN SaveLoop(d, frames, current_path, timestamp, faults, saved_files, i + 1)
         ELSE LET img == SaveFrame(d, current_path, ft, timestamp, faults) IN
              IF img.raised
              THEN [disk |-> Cleanup(img.disk, saved_files, 1),
                    saved_files |-> saved_files, raised |-> TRUE,
                    failed |-> <<ft, "save_frame">>]
              ELSE LET meta == SaveMetadata(img.disk, img.path, faults) IN
                   IF meta.raised
                   THEN [disk |-> Cleanup(meta.disk, saved_files, 1),
                         saved_files |-> saved_files, raised |-> TRUE,
                         failed |-> <<ft, "save_metadata">>]
                   ELSE SaveLoop(meta.disk, frames, current_path, timestamp, faults,
                                 Append(saved_files, img.path), i + 1)

\* _ensure_directory_exists: self.current_path is the directory of today's date
EnsureDirectoryExists(today) == today

\* save_frames_with_metadata(frames, metadata, timestamp, capture_type),
\* called when the clock shows the date today
SaveFramesWithMetadata(d, frames, timestamp, today, faults) ==
    SaveLoop(d, frames, EnsureDirectoryExists(today), timestamp, faults, <<>>, 1)

(***************************************************************************)
(* GPSManager (src/gps_manager.py) and the motion filter of main.py        *)
(***************************************************************************)
\* A fix is <<latitude, longitude>> in units of 0.00001 degree; <<>> is None.
\* The latitudes the GPS receiver reports in this model; longitude stays at
\* one value, so that calculate_distance reduces to R * |dlat| exactly.
Latitudes == {1, 2, 13}
Longitudes == {1}
Fixes == Latitudes \X Longitudes
NoFix == <<>>

Abs(x) == IF x < 0 THEN -x ELSE x

\* R = 6371000, Earth's radius in metres
EarthRadius == 6371000

\* millimetres of arc on the Earth's surface per 0.00001 degree:
\* R * radians(0.00001) * 1000, with pi taken as 355/113
MillimetresPerUnit == ((EarthRadius \div 100) * 355) \div (113 * 180)

\* calculate_distance(coord1, coord2) in millimetres. With dlon = 0 the
\* haversine term a is sin(dlat/2)^2 and c = 2*atan2(sqrt(a), sqrt(1-a)) is
\* |dlat| in radians, so the distance is R * |dlat|.
calculate_distance(coord1, coord2) ==
    MillimetresPerUnit * Abs(coord2[1] - coord1[1])

\* get_distance_moved() of a GPSManager whose fields are current and last:
\* the distance in millimetres, the coordinates returned and the new
\* value of self.last_position
get_distance_moved(current, last) ==
    IF current = NoFix \/ last = NoFix
    THEN [distance |-> 0, coords |-> current, last_position |-> current]
    ELSE [distance |-> calculate_distance(last, current), coords |-> current,
          last_position |-> last]

\* self.gps_threshold = 0.0001 degree, in units of 0.00001 degree
gps_threshold == 10

\* a check_motion that compares the latitudes only: the variant that
\* C16_MotionFilterResult tells apart from the code
check_motion_latitude_only(last, current) ==
    IF last = NoFix \/ current = NoFix
    THEN [is_moving |-> TRUE, last_gps_coords |-> current]
    ELSE LET is_moving == Abs(current[1] - last[1]) > gps_threshold
         IN [is_moving |-> is_moving,
             last_gps_coords |-> IF is_moving THEN current ELSE last]

\* a check_motion that stores every fix it is given: the variant that
\* C17_MotionBaseline tells apart from the code
check_motion_storing_every_fix(last, current) ==
    IF last = NoFix \/ current = NoFix
    THEN [is_moving |-> TRUE, last_gps_coords |-> current]
    ELSE [is_moving |-> Abs(current[1] - last[1]) > gps_threshold
                         \/ Abs(current[2] - last[2]) > gps_threshold,
          last_gps_coords |-> current]

\* check_motion(current_coords) with self.last_gps_coords = last:
\* the value returned and the new value of self.last_gps_coords
check_motion(last, current) ==
    IF last = NoFix \/ current = NoFix
    THEN [is_moving |-> TRUE, last_gps_coords |-> current]
    ELSE LET lat_diff == Abs(current[1] - last[1])
             lon_diff == Abs(current[2] - last[2])
             is_moving == lat_diff > gps_threshold \/ lon_diff > gps_threshold
         IN [is_moving |-> is_moving,
             last_gps_coords |-> IF is_moving THEN current ELSE last]

(***************************************************************************)
(* State                                                                    *)
(***************************************************************************)
\* the clock runs from 0 to MaxTime seconds
MaxTime == 2
\* threads of one kind (policy, acquisition, GPS reader) that exist at a time
MaxThreads == 2
\* start_video_recording calls of a behaviour
MaxRecordings == 2
\* direct check_motion calls of a MotionSpec behaviour
MaxMotionCalls == 3
\* the largest column and row index of a frame
MaxPixel == 2

ThreadIds == 1..MaxThreads
\* the interval settings the UI passes to start_system
IntervalTypes == {"time", "distance"}
\* the numbers typed into the interval entry, float(self.interval_var.get())
IntervalEntries == {-1, 0, 1, 2}
\* a start check that accepts every interval entry: the variant that
\* C13_NoDistanceTriggerWithoutFix tells apart from the check of the UI
IntervalAcceptedAlways(value) == TRUE
\* _toggle_camera_and_recording: if interval_settings['value'] < 1: raise
\* ValueError, and start_system is not called
\* a start check that rejects negative entries only: the variant that
\* C26_NonPositiveIntervalRejected tells apart from the check of the UI
IntervalAcceptedNonNegative(value) == ~(value < 0)

IntervalAccepted(value) == ~(value < 1)
\* the interval values start_system is called with
IntervalValues == {value \in IntervalEntries : IntervalAccepted(value)}
RecordTypes == {"interval", "continuous"}
\* the streams start_video_recording opens a writer for
VideoStreams == {"rgb", "depth", "ir"}

VARIABLES
    disk,        \* the files under base_path
    st_call,     \* the last save_frames_with_metadata call and its outcome
    st_calls,    \* number of calls made
    \* ---- the clock
    now,
    \* ---- MainApplication
    ui_pc,              \* position of the UI thread inside a command
    selected_device,    \* self.selected_device is set
    running,            \* self.running
    interval_type,      \* self.interval_type
    interval_value,     \* self.interval_value
    ui_interval_type,   \* the interval type selected in the UI (ui.interval_type)
    recording_state,    \* self.recording_state
    last_save_time,     \* self.last_save_time
    last_gps_coords,    \* self.last_gps_coords
    save_thread,        \* self.save_thread: 0 is None, else a thread id
    save_pc,            \* position of each policy (save) loop thread
    gps,                \* self.gps: None or "GPSManager"
    \* ---- GPSManager
    gps_running,        \* self.gps.running
    current_coords,     \* self.gps.current_coords
    last_position,      \* self.gps.last_position
    serial_connection,  \* self.gps.serial_connection: None, "open", "closed"
    gps_thread,         \* self.gps.gps_thread: 0 is None, else a thread id
    gps_pc,             \* position of each GPS reader thread
    \* ---- CameraManager
    cam_running,        \* self.camera.running
    device,             \* self.camera.device: None or "open"
    queues,             \* q_depth, q_left ... are set (never cleared)
    latest_rgb_video,   \* self.camera.latest_rgb_video: None or "frame"
    mask_coords,        \* self.camera.mask_coords: <<x1, y1, x2, y2>>
    video_writers,      \* self.camera.video_writers: 0 is None, else the
                        \* number of the start_video_recording call
    camera_thread,      \* self.camera.camera_thread: 0 is None, else an id
    cam_pc,             \* position of each acquisition loop thread
    \* ---- cv2.VideoWriter handles
    recordings,         \* start_video_recording calls made so far
    releases,           \* releases[g][s]: times writer s of call g was released
    \* ---- history
    late_write,         \* a frame was written to a released writer
    last_cmd,           \* the last UI command that returned: start_system,
                        \* stop_system, manual_capture or another one, and
                        \* whether an exception was raised inside it
    last_tick,          \* what the last tick of the policy loop since
                        \* start_system did
    capture_time,       \* tick time of the last successful automatic capture
                        \* since start_system, -1 if none
    start_time,         \* time at which the last start_system returned, -1 if none
    last_persist,       \* the save_frames_with_metadata call the application
                        \* made in the last step: its caller and what it
                        \* wrote (NoPersist when the step made no call)
    stale_rgb,          \* camera.latest_rgb_video holds a frame that was there
                        \* when the last stop_camera() of a stop_system ended
    distance_call,      \* the last direct call of calculate_distance: its
                        \* arguments and the distance returned, in metres
    last_read,          \* the sentence the GPS reader read in the last step and
                        \* whether it invoked the callback (NoRead when the
                        \* step read none)
    motion_call,        \* the last direct call of check_motion: its number, the
                        \* baseline before it, its argument and its result, the
                        \* argument of the call before it and the argument of
                        \* the last call that reported motion
    \* ---- locals
    save_local          \* current_time, coords and frames['rgb'] of a tick of
                        \* the policy loop that is inside a queue read

storageVars == <<disk, st_call, st_calls>>
gpsVars == <<gps, gps_running, current_coords, last_position, serial_connection,
            gps_thread, gps_pc>>
cameraVars == <<cam_running, device, queues, latest_rgb_video, video_writers,
                camera_thread, cam_pc, mask_coords>>
writerVars == <<recordings, releases>>
policyVars == <<interval_type, interval_value, last_save_time, last_gps_coords>>
historyVars == <<start_time, last_persist, motion_call, last_read, distance_call,
                 stale_rgb>>
uiVars == <<ui_interval_type>>
appVars == <<now, ui_pc, selected_device, running, recording_state, save_thread, save_pc,
             policyVars, gpsVars, cameraVars, writerVars,
             late_write, last_cmd, last_tick, capture_time, historyVars, save_local,
             uiVars>>
vars == <<storageVars, appVars>>

\* the value of st_call before the first call
NoCall ==
    [frames |-> [s \in Streams |-> "absent"], timestamp |-> [date |-> 0, usec |-> 0],
     today |-> 0, faults |-> {}, raised |-> FALSE, failed |-> <<>>,
     saved_files |-> <<>>]

StorageInit ==
    /\ disk = {}
    /\ st_call = NoCall
    /\ st_calls = 0

NoRecording == [active |-> FALSE, type |-> None, video |-> FALSE]
\* last_tick before the first tick after start_system; time is the
\* current_time of the tick
NoTick == [trigger |-> FALSE, stationary |-> FALSE, persist |-> "none", time |-> -1,
           error |-> FALSE]
\* distance_call before the first call
NoDistanceCall == [coord1 |-> <<>>, coord2 |-> <<>>, distance |-> 0, reverse |-> 0]
\* last_read after a step in which no sentence was read
NoRead == [line |-> <<"none", <<>>>>, callback |-> FALSE]
NoCmd == [name |-> "none", raised |-> FALSE, gps_error |-> FALSE]
\* last_cmd after a command other than start_system and stop_system
OtherCmd == [name |-> "other", raised |-> FALSE, gps_error |-> FALSE]

\* metadata=coords if coords else {"gps": "disabled"}
Metadata(coords) ==
    IF coords # NoFix
    THEN [latitude |-> coords[1], longitude |-> coords[2]]
    ELSE [gps |-> "disabled"]

\* an enhanced_metadata that tags every capture as automatic: the variant
\* that C15_ManualCaptureAlwaysPersists tells apart from the code
EnhancedMetadataAlwaysAuto(metadata, capture_type) ==
    [metadata |-> metadata, capture_type |-> "auto"]

\* save_frames_with_metadata: enhanced_metadata = {**metadata, 'capture_type':
\* capture_type, ...}, the dict save_metadata writes next to every image
EnhancedMetadata(metadata, capture_type) ==
    [metadata |-> metadata, capture_type |-> capture_type]

\* last_persist after a step that made no call
NoPersist ==
    [caller |-> "none", enhanced_metadata |-> EnhancedMetadata(Metadata(NoFix), "none"),
     raised |-> FALSE, frames |-> [s \in Streams |-> "absent"],
     saved_files |-> <<>>, written |-> {}]
\* motion_call before the first call
NoMotionCall ==
    [n |-> 0, last |-> NoFix, current |-> NoFix, is_moving |-> FALSE,
     previous |-> NoFix, moving_fix |-> NoFix]
\* save_local of a thread that is not inside a queue read
NoLocal == [current_time |-> 0, coords |-> NoFix, rgb |-> "absent"]

\* MainApplication.__init__, CameraManager.__init__, GPSManager.__init__
AppInit ==
    /\ now = 0
    /\ ui_pc = "idle"
    /\ selected_device = FALSE
    /\ running = FALSE
    /\ interval_type = "time"
    /\ interval_value = 30
    /\ ui_interval_type = "time"
    /\ last_read = NoRead
    /\ distance_call = NoDistanceCall
    /\ stale_rgb = FALSE
    /\ recording_state = NoRecording
    /\ last_save_time = 0
    /\ last_gps_coords = NoFix
    /\ save_thread = 0
    /\ save_pc = [t \in ThreadIds |-> "none"]
    /\ gps = "GPSManager"
    /\ gps_running = FALSE
    /\ current_coords = NoFix
    /\ last_position = NoFix
    /\ serial_connection = None
    /\ gps_thread = 0
    /\ gps_pc = [t \in ThreadIds |-> "none"]
    /\ cam_running = FALSE
    /\ device = None
    /\ queues = FALSE
    /\ latest_rgb_video = None
    /\ mask_coords = <<0, 0, 0, 0>>
    /\ video_writers = 0
    /\ camera_thread = 0
    /\ cam_pc = [t \in ThreadIds |-> "none"]
    /\ recordings = 0
    /\ releases = [g \in 1..MaxRecordings |-> [s \in VideoStreams |-> 0]]
    /\ late_write = FALSE
    /\ last_cmd = NoCmd
    /\ last_tick = NoTick
    /\ capture_time = -1
    /\ start_time = -1
    /\ last_persist = NoPersist
    /\ motion_call = NoMotionCall
    /\ save_local = [t \in ThreadIds |-> NoLocal]

Init == StorageInit /\ AppInit

(***************************************************************************)
(* StorageSpec: calls of save_frames_with_metadata                          *)
(***************************************************************************)
\* one call of save_frames_with_metadata
StorageSave(frames, timestamp, today, faults) ==
    /\ st_calls < MaxSaves
    /\ LET r == SaveFramesWithMetadata(disk, frames, timestamp, today, faults) IN
       /\ disk' = r.disk
       /\ st_call' = [frames |-> frames, timestamp |-> timestamp, today |-> today,
                      faults |-> faults, raised |-> r.raised,
                      failed |-> r.failed, saved_files |-> r.saved_files]
    /\ st_calls' = st_calls + 1
    /\ UNCHANGED appVars

StorageNext ==
    /\ st_calls < MaxSaves
    /\ \E frames \in Bundles, timestamp \in Timestamps, faults \in FaultSets :
          \E today \in timestamp.date..MaxDate :
              StorageSave(frames, timestamp, today, faults)

StorageSpec == Init /\ [][StorageNext]_vars

(***************************************************************************)
(* NamingSpec: calls of save_frames_with_metadata one after the other, with *)
(* no write failing, and the path strings of the files they write           *)
(***************************************************************************)
\* the characters of a frame type, the underscore apart
StreamName(frame_type) ==
    IF frame_type = "depth_raw" THEN <<"depth", "_", "raw">> ELSE <<frame_type>>

\* a file name that leaves out the microseconds (%Y%m%d_%H%M%S): the variant
\* that C32_FileNamesUnique tells apart from the code
FileNameToTheSecond(frame_type, timestamp) ==
    StreamName(frame_type) \o <<"_", timestamp.date>>

\* f"{frame_type}_{timestamp.strftime('%Y%m%d_%H%M%S_%f')}": the date and the
\* time of day are fields of fixed width
FileName(frame_type, timestamp) ==
    StreamName(frame_type) \o <<"_", timestamp.date, "_", timestamp.usec>>

\* os.path.join(self.current_path, f"{filename}.{ext}") as a string
PathString(current_path, frame_type, timestamp) ==
    <<current_path, "/">> \o FileName(frame_type, timestamp)
        \o <<".", Extension(frame_type)>>

\* filepath.rsplit('.', 1)[0] + '.json' on that string
JsonPathString(filepath) == SubSeq(filepath, 1, Len(filepath) - 2) \o <<".", "json">>

\* the frame bundles of NamingSpec: every stream has a frame or is left out
NamingBundles == [Streams -> {"absent", "frame"}]

\* one call of save_frames_with_metadata in which every write succeeds
SaveBundle(frames, timestamp, today) ==
    /\ st_calls < MaxBundles
    /\ LET r == SaveFramesWithMetadata(disk, frames, timestamp, today, {}) IN
       /\ disk' = r.disk
       /\ st_call' = [frames |-> frames, timestamp |-> timestamp, today |-> today,
                      faults |-> {}, raised |-> r.raised,
                      failed |-> r.failed, saved_files |-> r.saved_files]
    /\ st_calls' = st_calls + 1
    /\ UNCHANGED appVars

NamingNext ==
    /\ st_calls < MaxBundles
    /\ \E frames \in NamingBundles, timestamp \in Timestamps :
          \E today \in timestamp.date..MaxDate :
              SaveBundle(frames, timestamp, today)

NamingSpec == Init /\ [][NamingNext]_vars

(***************************************************************************)
(* MotionSpec: calls of check_motion                                        *)
(***************************************************************************)
\* latitudes and longitudes of the fixes check_motion is called with, in
\* units of 0.00001 degree: differences of 1, 10, 11 and more
MotionCoordinates == {1, 11, 12, 22}
MotionFixes == MotionCoordinates \X MotionCoordinates

\* one call check_motion(current)
CheckMotion(current) ==
    /\ motion_call.n < MaxMotionCalls
    /\ LET r == check_motion(last_gps_coords, current) IN
       /\ last_gps_coords' = r.last_gps_coords
       /\ motion_call' = [n |-> motion_call.n + 1, last |-> last_gps_coords,
                          current |-> current, is_moving |-> r.is_moving,
                          previous |-> motion_call.current,
                          moving_fix |-> IF r.is_moving THEN current
                                         ELSE motion_call.moving_fix]
    /\ UNCHANGED <<storageVars, now, ui_pc, selected_device, running, recording_state,
                   save_thread, save_pc, interval_type, interval_value, last_save_time,
                   gpsVars, cameraVars, writerVars, late_write, last_cmd, last_tick,
                   capture_time, start_time, last_persist, save_local>>
    /\ UNCHANGED uiVars
    /\ last_read' = NoRead
    /\ UNCHANGED distance_call
    /\ UNCHANGED stale_rgb

MotionNext ==
    /\ motion_call.n < MaxMotionCalls
    /\ \E current \in MotionFixes \cup {NoFix} : CheckMotion(current)

MotionSpec == Init /\ [][MotionNext]_vars

(***************************************************************************)
(* Threads                                                                  *)
(***************************************************************************)
Live(pc, t) == t # 0 /\ pc[t] \notin {"none", "done"}
AnyLive(pc) == \E t \in ThreadIds : Live(pc, t)
HasFreeSlot(pc) == \E t \in ThreadIds : ~Live(pc, t)
\* the slot a thread started now gets
FreeSlot(pc) == CHOOSE t \in ThreadIds : ~Live(pc, t) /\ \A u \in ThreadIds : ~Live(pc, u) => t <= u

\* no background loop of an earlier start is still live
NoLoopLive == ~AnyLive(save_pc) /\ ~AnyLive(cam_pc) /\ ~AnyLive(gps_pc)

\* the timeout of thread.join(timeout=1.0) can expire whatever the thread does
JoinTimeout == TRUE

\* thread.join(timeout=1.0) on the thread object t (0: no thread object):
\* returns when the thread has ended, or when the timeout has expired
JoinReturns(pc, t) == ~Live(pc, t) \/ JoinTimeout

(***************************************************************************)
(* The clock and the device selection                                       *)
(***************************************************************************)
AdvanceTime ==
    /\ now < MaxTime
    /\ now' = now + 1
    /\ UNCHANGED <<storageVars, ui_pc, selected_device, running, recording_state,
                   save_thread, save_pc, policyVars, gpsVars, cameraVars, writerVars,
                   late_write, last_cmd, last_tick, capture_time>>
    /\ last_persist' = NoPersist
    /\ UNCHANGED <<start_time, motion_call, save_local>>
    /\ UNCHANGED uiVars
    /\ last_read' = NoRead
    /\ UNCHANGED distance_call
    /\ UNCHANGED stale_rgb

\* select_device(device_info)
SelectDevice ==
    /\ ui_pc = "idle"
    /\ ~selected_device
    /\ selected_device' = TRUE
    /\ last_cmd' = OtherCmd
    /\ UNCHANGED <<storageVars, now, ui_pc, running, recording_state, save_thread, save_pc,
                   policyVars, gpsVars, cameraVars, writerVars, late_write, last_tick,
                   capture_time>>
    /\ last_persist' = NoPersist
    /\ UNCHANGED <<start_time, motion_call, save_local>>
    /\ UNCHANGED uiVars
    /\ last_read' = NoRead
    /\ UNCHANGED distance_call
    /\ UNCHANGED stale_rgb

(***************************************************************************)
(* GPSManager.start_gps / stop_gps                                          *)
(***************************************************************************)
\* start_gps(callback) of a GPSManager with the given fields; port_ok:
\* find_gps_port finds a port and serial.Serial opens it. The fields
\* afterwards and whether the call raised.
start_gps(is_running, serial, thread, pc, port_ok) ==
    IF is_running
    THEN [running |-> TRUE, serial |-> serial, thread |-> thread, pc |-> pc,
          raised |-> FALSE]
    ELSE IF ~port_ok
    THEN [running |-> FALSE, serial |-> serial, thread |-> thread, pc |-> pc,
          raised |-> TRUE]
    ELSE [running |-> TRUE, serial |-> "open", thread |-> FreeSlot(pc),
          pc |-> [pc EXCEPT ![FreeSlot(pc)] = "loop"], raised |-> FALSE]

\* stop_gps() up to its join: self.running = False; serial_connection.close()
stop_gps_serial == IF serial_connection = None THEN None ELSE "closed"

(***************************************************************************)
(* CameraManager.start_camera                                               *)
(***************************************************************************)
CameraOutcomes == {"ok", "open_failed", "setup_failed"}

\* start_camera(...): the camera fields afterwards and the value returned
start_camera(outcome) ==
    IF cam_running
    THEN [running |-> TRUE, device |-> device, queues |-> queues,
          thread |-> camera_thread, pc |-> cam_pc, returned |-> FALSE]
    ELSE IF outcome = "open_failed"
    THEN [running |-> FALSE, device |-> device, queues |-> queues,
          thread |-> camera_thread, pc |-> cam_pc, returned |-> FALSE]
    ELSE IF outcome = "setup_failed"
    THEN [running |-> FALSE, device |-> "open", queues |-> queues,
          thread |-> camera_thread, pc |-> cam_pc, returned |-> FALSE]
    ELSE [running |-> TRUE, device |-> "open", queues |-> TRUE,
          thread |-> FreeSlot(cam_pc),
          pc |-> [cam_pc EXCEPT ![FreeSlot(cam_pc)] = "loop"], returned |-> TRUE]

(***************************************************************************)
(* MainApplication.start_system                                             *)
(***************************************************************************)
\* a start_system that keeps the GPSManager whose start_gps raised: the variant
\* that C28_LocationFailureAtStartRecoverable tells apart from the code
GpsAfterStartKept(g) == gps

\* self.gps after the try around start_gps: the except clause shows the error
\* and sets self.gps = None
GpsAfterStart(g) == IF g.raised THEN None ELSE gps

\* start_system(interval_settings). The except branch (stop_system, raise) is
\* taken only when a statement of the try body raises; start_gps failures are
\* handled inside and start_camera catches its own exceptions and returns
\* False, so the try body runs to its end.
\* last_cmd.gps_error: start_gps was called and raised.
\* the body of start_system; after: the position of the UI thread when it
\* has returned
start_system(type, value, port_ok, outcome, after) ==
    /\ selected_device
    /\ ui_pc' = after
    /\ HasFreeSlot(save_pc) /\ HasFreeSlot(cam_pc) /\ HasFreeSlot(gps_pc)
    /\ interval_type' = type
    /\ interval_value' = value
    /\ IF gps # None
       THEN LET g == start_gps(gps_running, serial_connection, gps_thread, gps_pc,
                               port_ok) IN
            /\ gps' = GpsAfterStart(g)
            /\ gps_running' = g.running
            /\ serial_connection' = g.serial
            /\ gps_thread' = g.thread
            /\ gps_pc' = g.pc
       ELSE UNCHANGED <<gps, gps_running, serial_connection, gps_thread, gps_pc>>
    /\ LET c == start_camera(outcome) IN
       /\ cam_running' = c.running
       /\ device' = c.device
       /\ queues' = c.queues
       /\ camera_thread' = c.thread
       /\ cam_pc' = c.pc
    /\ running' = TRUE
    /\ last_save_time' = now
    /\ save_thread' = FreeSlot(save_pc)
    /\ save_pc' = [save_pc EXCEPT ![FreeSlot(save_pc)] = "poll"]
    /\ capture_time' = -1
    /\ start_time' = now
    /\ last_tick' = NoTick
    /\ last_cmd' = [name |-> "start_system", raised |-> FALSE,
                    gps_error |-> gps # None /\ ~gps_running /\ ~port_ok]
    /\ UNCHANGED <<storageVars, now, selected_device, recording_state,
                   last_gps_coords, current_coords, last_position, latest_rgb_video,
                   video_writers, writerVars, late_write>>
    /\ last_persist' = NoPersist
    /\ UNCHANGED <<motion_call, save_local>>
    /\ UNCHANGED mask_coords
    /\ UNCHANGED uiVars
    /\ last_read' = NoRead
    /\ UNCHANGED distance_call
    /\ UNCHANGED stale_rgb

\* start_system called on its own
StartSystem(type, value, port_ok, outcome) ==
    /\ ui_pc = "idle"
    /\ start_system(type, value, port_ok, outcome, "idle")

\* the start flow of the UI up to start_callback: the interval entry is
\* checked, and only an accepted one is passed to start_system; a rejected
\* one raises ValueError, which the flow shows in a message box
StartRequest(type, entry, port_ok, outcome) ==
    IF IntervalAccepted(entry)
    THEN StartSystem(type, entry, port_ok, outcome)
    ELSE /\ ui_pc = "idle"
         /\ last_cmd' = [name |-> "start_rejected", raised |-> TRUE, gps_error |-> FALSE]
         /\ last_persist' = NoPersist
         /\ UNCHANGED <<storageVars, now, ui_pc, selected_device, running,
                        recording_state, save_thread, save_pc, policyVars, gpsVars,
                        cameraVars, writerVars, late_write, last_tick, capture_time,
                        start_time, motion_call, save_local, uiVars>>
         /\ last_read' = NoRead
         /\ UNCHANGED distance_call
         /\ UNCHANGED stale_rgb

\* a click on the "Time-based" or "Distance-based" radio button: the
\* selection is stored in the UI and the interval label is updated
SelectIntervalType(type) ==
    /\ ui_pc = "idle"
    /\ ui_interval_type' = type
    /\ last_persist' = NoPersist
    /\ UNCHANGED <<storageVars, now, ui_pc, selected_device, running, recording_state,
                   save_thread, save_pc, policyVars, gpsVars, cameraVars, writerVars,
                   late_write, last_cmd, last_tick, capture_time, start_time,
                   motion_call, save_local>>
    /\ last_read' = NoRead
    /\ UNCHANGED distance_call
    /\ UNCHANGED stale_rgb

(***************************************************************************)
(* cv2.VideoWriter handles                                                  *)
(***************************************************************************)
\* for writer in video_writers.values(): writer.release()
ReleaseAll(g) == [releases EXCEPT ![g] = [s \in VideoStreams |-> releases[g][s] + 1]]

(***************************************************************************)
(* MainApplication.toggle_recording                                         *)
(***************************************************************************)
\* toggle_recording(record_type, include_video) while not active: start.
\* dir_ok: os.makedirs of the video directory succeeds.
start_recording(record_type, include_video, dir_ok, after) ==
    /\ ~recording_state.active
    /\ include_video => recordings < MaxRecordings
    /\ ui_pc' = after
    /\ IF include_video /\ ~dir_ok
       THEN \* except: show_error; recording_state['active'] = False
            /\ recording_state' = [recording_state EXCEPT !.active = FALSE]
            /\ UNCHANGED <<video_writers, recordings, last_save_time>>
       ELSE /\ IF include_video
               THEN /\ recordings' = recordings + 1
                    /\ video_writers' = recordings + 1
               ELSE UNCHANGED <<video_writers, recordings>>
            /\ recording_state' = [active |-> TRUE, type |-> record_type,
                                   video |-> include_video]
            /\ last_save_time' = now
    /\ last_cmd' = OtherCmd
    /\ UNCHANGED <<storageVars, now, selected_device, running, save_thread, save_pc,
                   interval_type, interval_value, last_gps_coords, gpsVars,
                   cam_running, device, queues, latest_rgb_video, camera_thread, cam_pc,
                   releases, late_write, last_tick, capture_time>>
    /\ last_persist' = NoPersist
    /\ UNCHANGED <<start_time, motion_call, save_local>>
    /\ UNCHANGED mask_coords
    /\ UNCHANGED uiVars
    /\ last_read' = NoRead
    /\ UNCHANGED distance_call
    /\ UNCHANGED stale_rgb

\* toggle_recording called on its own while not active
StartRecording(record_type, include_video, dir_ok) ==
    /\ ui_pc = "idle"
    /\ start_recording(record_type, include_video, dir_ok, "idle")

\* toggle_recording while active, first part: stop_video_recording(video_writers)
\* when recording_state['video'] and video_writers; otherwise the whole branch.
\* after: the position of the UI thread when the branch is done.
StopRecordingBegin(release_pc, after) ==
    IF recording_state.video /\ video_writers # 0
    THEN /\ releases' = ReleaseAll(video_writers)
         /\ ui_pc' = release_pc
         /\ UNCHANGED <<video_writers, recording_state>>
    ELSE /\ recording_state' = NoRecording
         /\ ui_pc' = after
         /\ UNCHANGED <<video_writers, releases>>

\* a stop branch of toggle_recording that clears the writers and leaves
\* recording_state as it is: the variant that C31_RecordingOnlyWhileRunning
\* tells apart from the code
StopRecordingEndKeepingState(after) ==
    /\ video_writers' = 0
    /\ UNCHANGED recording_state
    /\ ui_pc' = after

\* a stop branch of toggle_recording that resets recording_state and leaves
\* the released writers in self.camera.video_writers
StopRecordingEndKeepingWriters(after) ==
    /\ UNCHANGED video_writers
    /\ recording_state' = NoRecording
    /\ ui_pc' = after

\* toggle_recording while active, second part: self.camera.video_writers = None
\* and the reset of recording_state
StopRecordingEnd(after) ==
    /\ video_writers' = 0
    /\ recording_state' = NoRecording
    /\ ui_pc' = after

StopRecording ==
    /\ ui_pc = "idle"
    /\ recording_state.active
    /\ StopRecordingBegin("tr_clear", "idle")
    /\ last_cmd' = IF ui_pc' = "idle"
                   THEN OtherCmd ELSE last_cmd
    /\ UNCHANGED <<storageVars, now, selected_device, running, save_thread, save_pc,
                   policyVars, gpsVars, cam_running, device, queues, latest_rgb_video,
                   camera_thread, cam_pc, recordings, late_write, last_tick,
                   capture_time>>
    /\ last_persist' = NoPersist
    /\ UNCHANGED <<start_time, motion_call, save_local>>
    /\ UNCHANGED mask_coords
    /\ UNCHANGED uiVars
    /\ last_read' = NoRead
    /\ UNCHANGED distance_call
    /\ UNCHANGED stale_rgb

StopRecordingClear ==
    /\ ui_pc = "tr_clear"
    /\ StopRecordingEnd("idle")
    /\ last_cmd' = OtherCmd
    /\ UNCHANGED <<storageVars, now, selected_device, running, save_thread, save_pc,
                   policyVars, gpsVars, cam_running, device, queues, latest_rgb_video,
                   camera_thread, cam_pc, writerVars, late_write, last_tick,
                   capture_time>>
    /\ last_persist' = NoPersist
    /\ UNCHANGED <<start_time, motion_call, save_local>>
    /\ UNCHANGED mask_coords
    /\ UNCHANGED uiVars
    /\ last_read' = NoRead
    /\ UNCHANGED distance_call
    /\ UNCHANGED stale_rgb

(***************************************************************************)
(* UIManager._toggle_camera_and_recording: the Start button of the          *)
(* recording options dialog                                                 *)
(***************************************************************************)
\* start_camera_and_recording(), first call: start_callback(interval_settings).
\* The dialog is not modal, so a second one can be opened before the first is
\* used; Start destroys the one opened last, and the other one stays open with
\* its Start button, which can then be clicked in any state of the system.
\* When start_system raises (no device selected) the callback ends there.
StartFlow(type, value, port_ok, outcome) ==
    /\ ui_pc = "idle"
    /\ start_system(type, value, port_ok, outcome, "sf_video")

\* second call: video_callback(record_type, include_video), which is
\* toggle_recording: it starts the recording when none is active and stops
\* the active one otherwise
StartFlowRecording(record_type, include_video, dir_ok) ==
    /\ ui_pc = "sf_video"
    /\ IF ~recording_state.active
       THEN start_recording(record_type, include_video, dir_ok, "idle")
       ELSE /\ StopRecordingBegin("sf_tr_clear", "idle")
            /\ last_cmd' = IF ui_pc' = "idle" THEN OtherCmd ELSE last_cmd
            /\ UNCHANGED <<storageVars, now, selected_device, running, save_thread,
                           save_pc, policyVars, gpsVars, cam_running, device, queues,
                           latest_rgb_video, camera_thread, cam_pc, recordings,
                           late_write, last_tick, capture_time>>
            /\ last_persist' = NoPersist
            /\ UNCHANGED <<start_time, motion_call, save_local>>
            /\ UNCHANGED mask_coords
            /\ UNCHANGED uiVars
            /\ last_read' = NoRead
            /\ UNCHANGED distance_call
            /\ UNCHANGED stale_rgb

\* the second part of that toggle_recording when it stops a video recording
StartFlowRecordingClear ==
    /\ ui_pc = "sf_tr_clear"
    /\ StopRecordingEnd("idle")
    /\ last_cmd' = OtherCmd
    /\ UNCHANGED <<storageVars, now, selected_device, running, save_thread, save_pc,
                   policyVars, gpsVars, cam_running, device, queues, latest_rgb_video,
                   camera_thread, cam_pc, writerVars, late_write, last_tick,
                   capture_time>>
    /\ last_persist' = NoPersist
    /\ UNCHANGED <<start_time, motion_call, save_local>>
    /\ UNCHANGED mask_coords
    /\ UNCHANGED uiVars
    /\ last_read' = NoRead
    /\ UNCHANGED distance_call
    /\ UNCHANGED stale_rgb

(***************************************************************************)
(* MainApplication.stop_system                                              *)
(***************************************************************************)
\* stop_system(), up to save_thread.join: the recording is stopped if active
\* (first part of toggle_recording), then self.running = False
StopSystem ==
    /\ ui_pc = "idle"
    /\ IF recording_state.active
       THEN StopRecordingBegin("ss_tr_clear", "ss_join_save")
       ELSE /\ ui_pc' = "ss_join_save"
            /\ UNCHANGED <<video_writers, recording_state, releases>>
    /\ running' = IF ui_pc' = "ss_join_save" THEN FALSE ELSE running
    /\ UNCHANGED <<storageVars, now, selected_device, save_thread, save_pc,
                   policyVars, gpsVars, cam_running, device, queues, latest_rgb_video,
                   camera_thread, cam_pc, recordings, late_write, last_cmd, last_tick,
                   capture_time>>
    /\ last_persist' = NoPersist
    /\ UNCHANGED <<start_time, motion_call, save_local>>
    /\ UNCHANGED mask_coords
    /\ UNCHANGED uiVars
    /\ last_read' = NoRead
    /\ UNCHANGED distance_call
    /\ UNCHANGED stale_rgb

\* the second part of toggle_recording inside stop_system, then self.running = False
StopSystemClear ==
    /\ ui_pc = "ss_tr_clear"
    /\ StopRecordingEnd("ss_join_save")
    /\ running' = FALSE
    /\ UNCHANGED <<storageVars, now, selected_device, save_thread, save_pc,
                   policyVars, gpsVars, cam_running, device, queues, latest_rgb_video,
                   camera_thread, cam_pc, writerVars, late_write, last_cmd, last_tick,
                   capture_time>>
    /\ last_persist' = NoPersist
    /\ UNCHANGED <<start_time, motion_call, save_local>>
    /\ UNCHANGED mask_coords
    /\ UNCHANGED uiVars
    /\ last_read' = NoRead
    /\ UNCHANGED distance_call
    /\ UNCHANGED stale_rgb

\* save_thread.join(timeout=1.0) returns; stop_camera() up to camera_thread.join:
\* self.running = False
StopSystemJoinSave ==
    /\ ui_pc = "ss_join_save"
    /\ JoinReturns(save_pc, save_thread)
    /\ cam_running' = FALSE
    /\ ui_pc' = "ss_join_cam"
    /\ UNCHANGED <<storageVars, now, selected_device, running, recording_state,
                   save_thread, save_pc, policyVars, gpsVars, device, queues,
                   latest_rgb_video, video_writers, camera_thread, cam_pc, writerVars,
                   late_write, last_cmd, last_tick, capture_time>>
    /\ last_persist' = NoPersist
    /\ UNCHANGED <<start_time, motion_call, save_local>>
    /\ UNCHANGED mask_coords
    /\ UNCHANGED uiVars
    /\ last_read' = NoRead
    /\ UNCHANGED distance_call
    /\ UNCHANGED stale_rgb

\* a stop_camera() that releases the writers and leaves the device open: the
\* variant that C6_StopSystemReleasesAll tells apart from stop_camera()
stop_camera_keeping_device ==
    /\ IF video_writers # 0
       THEN releases' = ReleaseAll(video_writers)
       ELSE UNCHANGED releases
    /\ video_writers' = 0
    /\ UNCHANGED device

\* the rest of stop_camera() once camera_thread.join has returned: the video
\* writers are released and cleared, the device is closed and set to None
stop_camera_release ==
    /\ IF video_writers # 0
       THEN releases' = ReleaseAll(video_writers)
       ELSE UNCHANGED releases
    /\ video_writers' = 0
    /\ device' = None

\* camera_thread.join(timeout=1.0) returns; the rest of stop_camera(); then
\* gps.stop_gps() up to gps_thread.join when self.gps is not None
StopSystemJoinCamera ==
    /\ ui_pc = "ss_join_cam"
    /\ JoinReturns(cam_pc, camera_thread)
    /\ stop_camera_release
    /\ IF gps # None
       THEN /\ gps_running' = FALSE
            /\ serial_connection' = stop_gps_serial
            /\ ui_pc' = "ss_join_gps"
            /\ UNCHANGED last_cmd
       ELSE /\ ui_pc' = "idle"
            /\ last_cmd' = [name |-> "stop_system", raised |-> FALSE, gps_error |-> FALSE]
            /\ UNCHANGED <<gps_running, serial_connection>>
    /\ UNCHANGED <<storageVars, now, selected_device, running, recording_state,
                   save_thread, save_pc, policyVars, gps, current_coords, last_position,
                   gps_thread, gps_pc, cam_running, queues, latest_rgb_video, camera_thread, cam_pc,
                   recordings, late_write, last_tick, capture_time>>
    /\ last_persist' = NoPersist
    /\ UNCHANGED <<start_time, motion_call, save_local>>
    /\ UNCHANGED mask_coords
    /\ UNCHANGED uiVars
    /\ last_read' = NoRead
    /\ UNCHANGED distance_call
    /\ stale_rgb' = (latest_rgb_video # None)

\* gps_thread.join(timeout=1.0) returns, and with it stop_gps and stop_system
StopSystemJoinGps ==
    /\ ui_pc = "ss_join_gps"
    /\ JoinReturns(gps_pc, gps_thread)
    /\ ui_pc' = "idle"
    /\ last_cmd' = [name |-> "stop_system", raised |-> FALSE, gps_error |-> FALSE]
    /\ UNCHANGED <<storageVars, now, selected_device, running, recording_state,
                   save_thread, save_pc, policyVars, gpsVars, cameraVars, writerVars,
                   late_write, last_tick, capture_time>>
    /\ last_persist' = NoPersist
    /\ UNCHANGED <<start_time, motion_call, save_local>>
    /\ UNCHANGED uiVars
    /\ last_read' = NoRead
    /\ UNCHANGED distance_call
    /\ UNCHANGED stale_rgb

(***************************************************************************)
(* MainApplication.toggle_gps                                               *)
(***************************************************************************)
\* toggle_gps(True) with self.gps None: a new GPSManager, started when the
\* system is running. The reader threads of the GPSManager dropped earlier
\* belong to that object and are no longer followed.
EnableGps(port_ok) ==
    /\ ui_pc = "idle"
    /\ gps = None
    /\ current_coords' = NoFix
    /\ last_position' = NoFix
    /\ IF running
       THEN LET g == start_gps(FALSE, None, 0, [t \in ThreadIds |-> "none"], port_ok) IN
            /\ gps' = IF g.raised THEN None ELSE "GPSManager"
            /\ gps_running' = g.running
            /\ serial_connection' = g.serial
            /\ gps_thread' = g.thread
            /\ gps_pc' = g.pc
       ELSE /\ gps' = "GPSManager"
            /\ gps_running' = FALSE
            /\ serial_connection' = None
            /\ gps_thread' = 0
            /\ gps_pc' = [t \in ThreadIds |-> "none"]
    /\ last_cmd' = OtherCmd
    /\ UNCHANGED <<storageVars, now, ui_pc, selected_device, running, recording_state,
                   save_thread, save_pc, policyVars, cameraVars, writerVars, late_write,
                   last_tick, capture_time>>
    /\ last_persist' = NoPersist
    /\ UNCHANGED <<start_time, motion_call, save_local>>
    /\ UNCHANGED uiVars
    /\ last_read' = NoRead
    /\ UNCHANGED distance_call
    /\ UNCHANGED stale_rgb

\* a stop_gps() that forgets the current fix: the variant that
\* C30_SharedFieldsHaveOneWriter tells apart from the code
stop_gps_coords_cleared == NoFix

\* self.current_coords after stop_gps(), which does not assign it
stop_gps_coords == current_coords

\* toggle_gps(False) with self.gps set: stop_gps() up to gps_thread.join
DisableGps ==
    /\ ui_pc = "idle"
    /\ gps # None
    /\ gps_running' = FALSE
    /\ serial_connection' = stop_gps_serial
    /\ current_coords' = stop_gps_coords
    /\ ui_pc' = "tg_join_gps"
    /\ UNCHANGED <<storageVars, now, selected_device, running, recording_state,
                   save_thread, save_pc, policyVars, gps, last_position,
                   gps_thread, gps_pc, cameraVars, writerVars, late_write, last_cmd,
                   last_tick, capture_time>>
    /\ last_persist' = NoPersist
    /\ UNCHANGED <<start_time, motion_call, save_local>>
    /\ UNCHANGED uiVars
    /\ last_read' = NoRead
    /\ UNCHANGED distance_call
    /\ UNCHANGED stale_rgb

\* gps_thread.join(timeout=1.0) returns; self.gps = None
DisableGpsJoin ==
    /\ ui_pc = "tg_join_gps"
    /\ JoinReturns(gps_pc, gps_thread)
    /\ gps' = None
    /\ ui_pc' = "idle"
    /\ last_cmd' = OtherCmd
    /\ UNCHANGED <<storageVars, now, selected_device, running, recording_state,
                   save_thread, save_pc, policyVars, gps_running, current_coords,
                   last_position, serial_connection, gps_thread, gps_pc, cameraVars,
                   writerVars, late_write, last_tick, capture_time>>
    /\ last_persist' = NoPersist
    /\ UNCHANGED <<start_time, motion_call, save_local>>
    /\ UNCHANGED uiVars
    /\ last_read' = NoRead
    /\ UNCHANGED distance_call
    /\ UNCHANGED stale_rgb

(***************************************************************************)
(* The mask: CameraManager.set_mask, apply_mask and the frames of each sink *)
(***************************************************************************)
\* the pixels (x, y) of a frame of MaxPixel + 1 columns and rows
Pixels == (0..MaxPixel) \X (0..MaxPixel)
\* an image: 1 is a lit pixel, 0 a black one
RawFrame == [p \in Pixels |-> 1]
\* the coordinates entered in the mask field: the initial value, two
\* rectangles and one with x2 < x1
MaskEntries == {<<0, 0, 0, 0>>, <<0, 0, 1, 1>>, <<1, 0, 2, 1>>, <<1, 1, 0, 0>>}

\* the pixels cv2.rectangle(mask, (x1, y1), (x2, y2), 0, -1) fills
Rectangle(coords) ==
    {p \in Pixels : /\ coords[1] <= p[1] /\ p[1] <= coords[3]
                    /\ coords[2] <= p[2] /\ p[2] <= coords[4]}

\* apply_mask(frame) with self.mask_coords = coords
apply_mask(frame, coords) ==
    IF coords[3] <= coords[1] \/ coords[4] <= coords[2]
    THEN frame
    ELSE [p \in Pixels |-> IF p \in Rectangle(coords) THEN 0 ELSE frame[p]]

\* the image of stream s that _update_camera puts into the frames dict of
\* frame_callback: apply_mask is called on rgb, depth and ir
DisplayFrame(s) ==
    IF s = "depth_raw" THEN RawFrame ELSE apply_mask(RawFrame, mask_coords)

\* the image of stream s that _save_loop and manual_capture put into the
\* frames dict they persist: camera.latest_rgb_video, and the messages of
\* q_depth.get() and q_left.get() after normalisation
CaptureFrame(s) == RawFrame

\* the image of stream s that the video block of _update_camera hands to
\* video_writers[s].write
VideoFrame(s) == RawFrame

\* update_mask(coords): self.camera.set_mask(coords)
SetMask(coords) ==
    /\ ui_pc = "idle"
    /\ mask_coords' = coords
    /\ last_cmd' = OtherCmd
    /\ UNCHANGED <<storageVars, now, ui_pc, selected_device, running, recording_state,
                   save_thread, save_pc, policyVars, gpsVars, cam_running, device, queues,
                   latest_rgb_video, video_writers, camera_thread, cam_pc, writerVars,
                   late_write, last_tick, capture_time>>
    /\ last_persist' = NoPersist
    /\ UNCHANGED <<start_time, motion_call, save_local>>
    /\ UNCHANGED uiVars
    /\ last_read' = NoRead
    /\ UNCHANGED distance_call
    /\ UNCHANGED stale_rgb

(***************************************************************************)
(* Frame snapshot and persist, shared by _save_loop and manual_capture      *)
(***************************************************************************)
\* the frames dict built from camera.latest_rgb_video, q_depth.get() and
\* q_left.get(); the queue reads raise once the device is closed
SnapshotFrames ==
    [s \in Streams |->
        IF s = "rgb"
        THEN (IF latest_rgb_video # None THEN "frame" ELSE "absent")
        ELSE (IF queues /\ device = "open" THEN "frame" ELSE "absent")]

\* a queue read of the snapshot raises
SnapshotRaises == queues /\ device # "open"

\* q_depth.get() and q_left.get() wait until the queue holds a message: a
\* snapshot taken while the queues exist, the device is open and the queues
\* hold no message (ready is false) waits inside the read
SnapshotWaits(ready) == queues /\ device = "open" /\ ~ready

\* a tick that persists whatever the frames dict holds: the variant that
\* C19_EmptyBundleNoArtifact tells apart from the code
NonEmptyUnchecked(frames) == TRUE

\* the frames dict is truthy
NonEmpty(frames) == \E s \in Streams : frames[s] # "absent"

\* the write failures of one persist of the running system: none, or every
\* image write raises
PersistFaults == {{}, {<<s, "image_raise">> : s \in Streams}}

\* save_frames_with_metadata(frames, ..., timestamp=datetime.now()) returns
\* normally
PersistSucceeds(frames, faults) ==
    ~SaveFramesWithMetadata({}, frames, [date |-> 0, usec |-> 0], 0, faults).raised

\* the list save_frames_with_metadata(frames, ...) returns, and the files it
\* leaves behind in a directory that was empty
PersistSavedFiles(frames, faults) ==
    LET r == SaveFramesWithMetadata({}, frames, [date |-> 0, usec |-> 0], 0, faults)
    IN IF r.raised THEN <<>> ELSE r.saved_files
PersistWritten(frames, faults) ==
    SaveFramesWithMetadata({}, frames, [date |-> 0, usec |-> 0], 0, faults).disk

(***************************************************************************)
(* MainApplication.manual_capture                                           *)
(***************************************************************************)
\* manual_capture() up to the queue reads: nothing happens unless
\* self.running; frames['rgb'] is taken; ready: the depth and left queues hold
\* a message when they are read
\* a manual_capture that does not look at self.running
ManualCaptureGuardIgnored == TRUE

\* 'if self.running:', the first statement of manual_capture
ManualCaptureGuard == running

\* manual_capture() as the key binding and the button call it, whatever the
\* state of the system: nothing is done when self.running is false
\* (last_cmd records that call)
ManualCaptureRequest(ready) ==
    /\ ui_pc = "idle"
    /\ IF ManualCaptureGuard
       THEN /\ ui_pc' = IF SnapshotWaits(ready) THEN "mc_get" ELSE "mc_persist"
            /\ UNCHANGED last_cmd
       ELSE /\ UNCHANGED ui_pc
            /\ last_cmd' = [name |-> "manual_capture", raised |-> FALSE,
                            gps_error |-> FALSE]
    /\ UNCHANGED <<storageVars, now, selected_device, running, recording_state,
                   save_thread, save_pc, policyVars, gpsVars, cameraVars, writerVars,
                   late_write, last_tick, capture_time>>
    /\ last_persist' = NoPersist
    /\ UNCHANGED <<start_time, motion_call, save_local>>
    /\ UNCHANGED uiVars
    /\ last_read' = NoRead
    /\ UNCHANGED distance_call
    /\ UNCHANGED stale_rgb

\* manual_capture() while the system is running, up to the snapshot
ManualCapture(ready) ==
    /\ running
    /\ ManualCaptureRequest(ready)

\* the queue read manual_capture waits in returns
ManualCaptureFrames ==
    /\ ui_pc = "mc_get"
    /\ ui_pc' = "mc_persist"
    /\ UNCHANGED <<storageVars, now, selected_device, running, recording_state,
                   save_thread, save_pc, policyVars, gpsVars, cameraVars, writerVars,
                   late_write, last_cmd, last_tick, capture_time>>
    /\ last_persist' = NoPersist
    /\ UNCHANGED <<start_time, motion_call, save_local>>
    /\ UNCHANGED uiVars
    /\ last_read' = NoRead
    /\ UNCHANGED distance_call
    /\ UNCHANGED stale_rgb

\* a manual_capture() that sets last_save_time when it has persisted: the
\* variant that C14_ManualCaptureKeepsPolicyState tells apart from the code
ManualCapturePersistResettingTimer(faults) ==
    /\ ui_pc = "mc_persist"
    /\ ui_pc' = "idle"
    /\ LET coords == IF gps # None THEN current_coords ELSE NoFix
           raised == ~PersistSucceeds(SnapshotFrames, faults)
       IN IF SnapshotRaises
          THEN /\ last_cmd' = [name |-> "manual_capture", raised |-> TRUE, gps_error |-> FALSE]
               /\ last_persist' = NoPersist
               /\ UNCHANGED last_save_time
          ELSE /\ last_cmd' = [name |-> "manual_capture", raised |-> raised, gps_error |-> FALSE]
               /\ last_persist' = [caller |-> "manual_capture",
                                   enhanced_metadata |->
                                       EnhancedMetadata(Metadata(coords), "manual"),
                                   raised |-> raised, frames |-> SnapshotFrames,
                                   saved_files |->
                                       PersistSavedFiles(SnapshotFrames, faults),
                                   written |-> PersistWritten(SnapshotFrames, faults)]
               /\ last_save_time' = IF raised THEN last_save_time ELSE now
    /\ UNCHANGED <<storageVars, now, selected_device, running, recording_state,
                   save_thread, save_pc, interval_type, interval_value,
                   last_gps_coords, gpsVars, cameraVars, writerVars,
                   late_write, last_tick, capture_time>>
    /\ UNCHANGED <<start_time, motion_call, save_local>>
    /\ UNCHANGED uiVars
    /\ last_read' = NoRead
    /\ UNCHANGED distance_call
    /\ UNCHANGED stale_rgb

\* the rest of manual_capture(): the coordinates are read and the frames are
\* persisted with capture_type="manual"; an exception of the queue reads or of
\* the persist is caught and printed
ManualCapturePersist(faults) ==
    /\ ui_pc = "mc_persist"
    /\ ui_pc' = "idle"
    /\ LET coords == IF gps # None THEN current_coords ELSE NoFix
           raised == ~PersistSucceeds(SnapshotFrames, faults)
       IN IF SnapshotRaises
          THEN /\ last_cmd' = [name |-> "manual_capture", raised |-> TRUE, gps_error |-> FALSE]
               /\ last_persist' = NoPersist
          ELSE /\ last_cmd' = [name |-> "manual_capture", raised |-> raised, gps_error |-> FALSE]
               /\ last_persist' = [caller |-> "manual_capture",
                                   enhanced_metadata |->
                                       EnhancedMetadata(Metadata(coords), "manual"),
                                   raised |-> raised, frames |-> SnapshotFrames,
                                   saved_files |->
                                       PersistSavedFiles(SnapshotFrames, faults),
                                   written |-> PersistWritten(SnapshotFrames, faults)]
    /\ UNCHANGED <<storageVars, now, selected_device, running, recording_state,
                   save_thread, save_pc, policyVars, gpsVars, cameraVars, writerVars,
                   late_write, last_tick, capture_time>>
    /\ UNCHANGED <<start_time, motion_call, save_local>>
    /\ UNCHANGED uiVars
    /\ last_read' = NoRead
    /\ UNCHANGED distance_call
    /\ UNCHANGED stale_rgb

(***************************************************************************)
(* CameraManager.__del__                                                    *)
(***************************************************************************)
\* __del__ up to camera_thread.join: the writers are released when
\* video_writers is set (and video_writers is left as it is), then
\* stop_camera() sets self.running = False
Destroy ==
    /\ ui_pc = "idle"
    /\ IF video_writers # 0
       THEN releases' = ReleaseAll(video_writers)
       ELSE UNCHANGED releases
    /\ cam_running' = FALSE
    /\ ui_pc' = "del_join_cam"
    /\ UNCHANGED <<storageVars, now, selected_device, running, recording_state,
                   save_thread, save_pc, policyVars, gpsVars, device, queues,
                   latest_rgb_video, video_writers, camera_thread, cam_pc, recordings,
                   late_write, last_cmd, last_tick, capture_time>>
    /\ last_persist' = NoPersist
    /\ UNCHANGED <<start_time, motion_call, save_local>>
    /\ UNCHANGED mask_coords
    /\ UNCHANGED uiVars
    /\ last_read' = NoRead
    /\ UNCHANGED distance_call
    /\ UNCHANGED stale_rgb

\* camera_thread.join(timeout=1.0) returns; the rest of stop_camera()
DestroyJoinCamera ==
    /\ ui_pc = "del_join_cam"
    /\ JoinReturns(cam_pc, camera_thread)
    /\ stop_camera_release
    /\ ui_pc' = "destroyed"
    /\ last_cmd' = OtherCmd
    /\ UNCHANGED <<storageVars, now, selected_device, running, recording_state,
                   save_thread, save_pc, policyVars, gpsVars, cam_running, queues,
                   latest_rgb_video, camera_thread, cam_pc, recordings, late_write,
                   last_tick, capture_time>>
    /\ last_persist' = NoPersist
    /\ UNCHANGED <<start_time, motion_call, save_local>>
    /\ UNCHANGED mask_coords
    /\ UNCHANGED uiVars
    /\ last_read' = NoRead
    /\ UNCHANGED distance_call
    /\ UNCHANGED stale_rgb

(***************************************************************************)
(* MainApplication._save_loop: the policy loop                              *)
(***************************************************************************)
\* while self.running: the loop condition
SavePoll(t) ==
    /\ save_pc[t] = "poll"
    /\ save_pc' = [save_pc EXCEPT ![t] = IF running THEN "tick" ELSE "done"]
    /\ UNCHANGED <<storageVars, now, ui_pc, selected_device, running, recording_state,
                   save_thread, policyVars, gpsVars, cameraVars, writerVars, late_write,
                   last_cmd, last_tick, capture_time>>
    /\ last_persist' = NoPersist
    /\ UNCHANGED <<start_time, motion_call, save_local>>
    /\ UNCHANGED uiVars
    /\ last_read' = NoRead
    /\ UNCHANGED distance_call
    /\ UNCHANGED stale_rgb

\* the trigger evaluation with a time-based branch for self.gps None that
\* ignores the time elapsed: the variant that C12_TimeCaptureWithoutLocation
\* tells apart from lines 256-258
TriggerEvaluationIgnoringElapsed ==
    IF gps # None
    THEN IF interval_type = "distance"
         THEN LET m == get_distance_moved(current_coords, last_position)
                  should_capture == m.distance >= interval_value * 1000
              IN [coords |-> m.coords, should_capture |-> should_capture,
                  last_position |-> IF should_capture THEN m.coords
                                    ELSE m.last_position]
         ELSE [coords |-> current_coords,
               should_capture |-> (now - last_save_time) >= interval_value,
               last_position |-> last_position]
    ELSE [coords |-> NoFix,
          should_capture |-> interval_type = "time",
          last_position |-> last_position]

\* lines 243-258 of a tick: coords, should_capture and the new value of
\* gps.last_position. Distances are in millimetres, interval_value in metres.
TriggerEvaluation ==
    IF gps # None
    THEN IF interval_type = "distance"
         THEN LET m == get_distance_moved(current_coords, last_position)
                  should_capture == m.distance >= interval_value * 1000
              IN [coords |-> m.coords, should_capture |-> should_capture,
                  last_position |-> IF should_capture THEN m.coords
                                    ELSE m.last_position]
         ELSE [coords |-> current_coords,
               should_capture |-> (now - last_save_time) >= interval_value,
               last_position |-> last_position]
    ELSE [coords |-> NoFix,
          should_capture |-> interval_type = "time"
                             /\ (now - last_save_time) >= interval_value,
          last_position |-> last_position]

\* lines 260-263 of a tick: the motion filter on the coords of the tick
MotionFilter(coords) ==
    IF coords # NoFix
    THEN check_motion(last_gps_coords, coords)
    ELSE [is_moving |-> TRUE, last_gps_coords |-> last_gps_coords]

\* lines 298-313 of a tick whose trigger fired and whose frames dict is
\* frames: the persist and the update of last_save_time; current_time and
\* coords are the locals of the tick
TickPersist(frames, current_time, coords, faults) ==
    LET attempt == NonEmpty(frames)
        save_success == attempt /\ PersistSucceeds(frames, faults)
    IN /\ last_save_time' = IF save_success THEN current_time ELSE last_save_time
       /\ capture_time' = IF save_success THEN current_time ELSE capture_time
       /\ last_tick' = [trigger |-> TRUE, stationary |-> FALSE,
                        persist |-> IF save_success THEN "ok"
                                    ELSE IF attempt THEN "failed" ELSE "none",
                        time |-> current_time, error |-> FALSE]
       /\ last_persist' = IF attempt
                          THEN [caller |-> "_save_loop",
                                enhanced_metadata |->
                                    EnhancedMetadata(Metadata(coords), "auto"),
                                raised |-> ~save_success, frames |-> frames,
                                saved_files |-> PersistSavedFiles(frames, faults),
                                written |-> PersistWritten(frames, faults)]
                          ELSE NoPersist

\* a policy loop without the except clause around the tick, which an error of
\* the tick ends: the variant that C24_LoopExitsOnlyWhenStopped tells apart
\* from the code
AfterTickErrorUncaught == "done"

\* where the loop goes on after a tick that raised: 'except Exception' prints
\* the error and sleeps, and the loop condition is read again
AfterTickError == "poll"

\* the body of the while loop of _save_loop, with current_time = now; ready:
\* the depth and left queues hold a message when the tick reads them
TickBody(t, faults, ready) ==
    /\ LET e == TriggerEvaluation
           m == MotionFilter(e.coords)
       IN /\ last_position' = e.last_position
          /\ last_gps_coords' = m.last_gps_coords
          /\ IF ~(m.is_moving /\ e.should_capture)
             THEN /\ save_pc' = [save_pc EXCEPT ![t] = "poll"]
                  /\ last_tick' = [trigger |-> e.should_capture,
                                   stationary |-> ~m.is_moving,
                                   persist |-> "none", time |-> now,
                                   error |-> FALSE]
                  /\ last_persist' = NoPersist
                  /\ UNCHANGED <<last_save_time, capture_time, save_local>>
             ELSE IF SnapshotWaits(ready)
             THEN /\ save_pc' = [save_pc EXCEPT ![t] = "get"]
                  /\ save_local' = [save_local EXCEPT
                                       ![t] = [current_time |-> now, coords |-> e.coords,
                                               rgb |-> SnapshotFrames["rgb"]]]
                  /\ last_tick' = [trigger |-> TRUE, stationary |-> FALSE,
                                   persist |-> "none", time |-> now,
                                   error |-> FALSE]
                  /\ last_persist' = NoPersist
                  /\ UNCHANGED <<last_save_time, capture_time>>
             ELSE /\ save_pc' = [save_pc EXCEPT ![t] = "poll"]
                  /\ TickPersist(SnapshotFrames, now, e.coords, faults)
                  /\ UNCHANGED save_local
    /\ UNCHANGED <<storageVars, now, ui_pc, selected_device, running, recording_state,
                   save_thread, interval_type, interval_value, gps, gps_running,
                   current_coords, serial_connection, gps_thread, gps_pc, cameraVars,
                   writerVars, late_write, last_cmd>>
    /\ UNCHANGED <<start_time, motion_call>>
    /\ UNCHANGED uiVars
    /\ last_read' = NoRead
    /\ UNCHANGED distance_call
    /\ UNCHANGED stale_rgb

\* one tick of the policy loop with no step of another thread inside it
SaveTick(t, faults, ready) ==
    /\ save_pc[t] = "tick"
    /\ TickBody(t, faults, ready)

\* a tick up to 'if self.gps is not None', which it has found true
SaveTickCheckGps(t) ==
    /\ save_pc[t] = "tick"
    /\ gps # None
    /\ save_pc' = [save_pc EXCEPT ![t] = "tick_gps"]
    /\ UNCHANGED <<storageVars, now, ui_pc, selected_device, running, recording_state,
                   save_thread, policyVars, gpsVars, cameraVars, writerVars, late_write,
                   last_cmd, last_tick, capture_time>>
    /\ last_persist' = NoPersist
    /\ UNCHANGED <<start_time, motion_call, save_local>>
    /\ UNCHANGED uiVars
    /\ last_read' = NoRead
    /\ UNCHANGED distance_call
    /\ UNCHANGED stale_rgb

\* the rest of that tick: self.gps.get_distance_moved() or
\* self.gps.get_current_location() raises AttributeError when toggle_gps has
\* set self.gps to None in between, which the except clause of the tick
\* catches
SaveTickReadGps(t, faults, ready) ==
    /\ save_pc[t] = "tick_gps"
    /\ IF gps = None
       THEN /\ save_pc' = [save_pc EXCEPT ![t] = AfterTickError]
            /\ last_tick' = [trigger |-> FALSE, stationary |-> FALSE,
                             persist |-> "none", time |-> now, error |-> TRUE]
            /\ last_persist' = NoPersist
            /\ UNCHANGED <<storageVars, now, ui_pc, selected_device, running,
                           recording_state, save_thread, policyVars, gpsVars,
                           cameraVars, writerVars, late_write, last_cmd, capture_time,
                           start_time, motion_call, save_local, uiVars>>
            /\ last_read' = NoRead
            /\ UNCHANGED distance_call
            /\ UNCHANGED stale_rgb
       ELSE TickBody(t, faults, ready)

\* the queue read a tick waits in returns (a message has arrived, or the
\* device was closed and the read raises): the rest of the tick
SaveTickResume(t, faults) ==
    /\ save_pc[t] = "get"
    /\ save_pc' = [save_pc EXCEPT ![t] = "poll"]
    /\ TickPersist([SnapshotFrames EXCEPT !["rgb"] = save_local[t].rgb],
                   save_local[t].current_time, save_local[t].coords, faults)
    /\ save_local' = [save_local EXCEPT ![t] = NoLocal]
    /\ UNCHANGED <<storageVars, now, ui_pc, selected_device, running, recording_state,
                   save_thread, interval_type, interval_value, last_gps_coords, gpsVars,
                   cameraVars, writerVars, late_write, last_cmd>>
    /\ UNCHANGED <<start_time, motion_call>>
    /\ UNCHANGED uiVars
    /\ last_read' = NoRead
    /\ UNCHANGED distance_call
    /\ UNCHANGED stale_rgb

(***************************************************************************)
(* CameraManager._update_camera: the acquisition loop                       *)
(***************************************************************************)
\* one iteration up to the video block: the loop condition, the queues are
\* drained (got_video: q_rgb_video.tryGet() returned a frame), and the
\* condition of the video block, self.running and self.video_writers
AcquirePoll(t, got_video) ==
    /\ cam_pc[t] = "loop"
    /\ IF ~cam_running
       THEN /\ cam_pc' = [cam_pc EXCEPT ![t] = "done"]
            /\ UNCHANGED <<latest_rgb_video, stale_rgb>>
       ELSE /\ device = "open"
            /\ latest_rgb_video' = IF got_video THEN "frame" ELSE latest_rgb_video
            /\ stale_rgb' = IF got_video THEN FALSE ELSE stale_rgb
            /\ cam_pc' = [cam_pc EXCEPT ![t] = IF video_writers # 0 THEN "write"
                                                ELSE "loop"]
    /\ UNCHANGED <<storageVars, now, ui_pc, selected_device, running, recording_state,
                   save_thread, save_pc, policyVars, gpsVars, cam_running, device, queues,
                   video_writers, camera_thread, writerVars, late_write, last_cmd,
                   last_tick, capture_time>>
    /\ last_persist' = NoPersist
    /\ UNCHANGED <<start_time, motion_call, save_local>>
    /\ UNCHANGED mask_coords
    /\ UNCHANGED uiVars
    /\ last_read' = NoRead
    /\ UNCHANGED distance_call

\* the video block: self.video_writers is read again for every stream; a read
\* of None raises AttributeError, which the block catches. in_depth, in_left:
\* the depth and left queues had a frame in this iteration.
AcquireWrite(t, in_depth, in_left) ==
    /\ cam_pc[t] = "write"
    /\ cam_pc' = [cam_pc EXCEPT ![t] = "loop"]
    /\ LET written == {s \in VideoStreams :
                          \/ s = "rgb" /\ latest_rgb_video # None
                          \/ s = "depth" /\ in_depth
                          \/ s = "ir" /\ in_left}
       IN late_write' = ( \/ late_write
                          \/ /\ video_writers # 0
                             /\ \E s \in written : releases[video_writers][s] > 0 )
    /\ UNCHANGED <<storageVars, now, ui_pc, selected_device, running, recording_state,
                   save_thread, save_pc, policyVars, gpsVars, cam_running, device, queues,
                   latest_rgb_video, video_writers, camera_thread, writerVars, last_cmd,
                   last_tick, capture_time>>
    /\ last_persist' = NoPersist
    /\ UNCHANGED <<start_time, motion_call, save_local>>
    /\ UNCHANGED mask_coords
    /\ UNCHANGED uiVars
    /\ last_read' = NoRead
    /\ UNCHANGED distance_call
    /\ UNCHANGED stale_rgb

(***************************************************************************)
(* GPSManager._read_gps: the GPS reader loop                                *)
(***************************************************************************)
\* the lines the receiver sends: a position sentence with a fix, or a line
\* pynmea2 cannot parse
Lines == {<<"RMC", f>> : f \in Fixes} \cup {<<"malformed", NoFix>>}

\* and a position sentence pynmea2 parses, with latitude and longitude, whose
\* time field is empty or not a time: msg.timestamp is then None or a string
\* and msg.timestamp.strftime raises AttributeError
Sentences == Lines \cup {<<"bad_field", NoFix>>}

\* where the reader thread is after that: 'except (pynmea2.ParseError,
\* UnicodeDecodeError)' does not catch the AttributeError, which ends the
\* thread
AfterSentenceError == "done"

\* one iteration: the loop condition, readline() and the sentence read. A
\* readline() on the closed connection raises an exception the loop does not
\* catch, which ends the thread.
GpsRead(t, line) ==
    /\ gps_pc[t] = "loop"
    /\ IF ~gps_running \/ serial_connection # "open"
       THEN /\ gps_pc' = [gps_pc EXCEPT ![t] = "done"]
            /\ UNCHANGED current_coords
            /\ last_read' = NoRead
            /\ UNCHANGED distance_call
            /\ UNCHANGED stale_rgb
       ELSE /\ current_coords' = IF line[1] = "RMC" THEN line[2] ELSE current_coords
            /\ gps_pc' = IF line[1] = "bad_field"
                         THEN [gps_pc EXCEPT ![t] = AfterSentenceError]
                         ELSE gps_pc
            /\ last_read' = [line |-> line, callback |-> line[1] = "RMC"]
            /\ UNCHANGED distance_call
            /\ UNCHANGED stale_rgb
    /\ UNCHANGED <<storageVars, now, ui_pc, selected_device, running, recording_state,
                   save_thread, save_pc, policyVars, gps, gps_running, last_position,
                   serial_connection, gps_thread, cameraVars, writerVars, late_write,
                   last_cmd, last_tick, capture_time>>
    /\ last_persist' = NoPersist
    /\ UNCHANGED <<start_time, motion_call, save_local>>
    /\ UNCHANGED uiVars

(***************************************************************************)
(* LifecycleSpec: the commands and the threads with the clock stopped, one  *)
(* interval setting and one position of the receiver                        *)
(***************************************************************************)
LifecycleLines == {<<"RMC", <<1, 1>>>>}

LifecycleNext ==
    \/ SelectDevice
    \/ /\ NoLoopLive
       /\ \E port_ok \in BOOLEAN, outcome \in CameraOutcomes :
             StartSystem("time", 1, port_ok, outcome)
    \/ \E record_type \in RecordTypes, include_video \in BOOLEAN, dir_ok \in BOOLEAN :
          StartRecording(record_type, include_video, dir_ok)
    \/ StopRecording
    \/ StopRecordingClear
    \/ StopSystem
    \/ StopSystemClear
    \/ StopSystemJoinSave
    \/ StopSystemJoinCamera
    \/ StopSystemJoinGps
    \/ \E port_ok \in BOOLEAN : EnableGps(port_ok)
    \/ DisableGps
    \/ DisableGpsJoin
    \/ Destroy
    \/ DestroyJoinCamera
    \/ \E t \in ThreadIds : SavePoll(t)
    \/ \E t \in ThreadIds : SaveTick(t, {}, TRUE)
    \/ \E t \in ThreadIds, got_video \in BOOLEAN : AcquirePoll(t, got_video)
    \/ \E t \in ThreadIds, in_depth \in BOOLEAN, in_left \in BOOLEAN :
          AcquireWrite(t, in_depth, in_left)
    \/ \E t \in ThreadIds, line \in LifecycleLines : GpsRead(t, line)

LifecycleSpec == Init /\ [][LifecycleNext]_vars

(***************************************************************************)
(* PolicySpec: the capture policy of one session (from start_system until   *)
(* stop_system) with the clock running, every interval setting and a moving *)
(* receiver, without video recording                                        *)
(***************************************************************************)
PolicyNext ==
    \/ AdvanceTime
    \/ SelectDevice
    \/ /\ NoLoopLive
       /\ \E type \in IntervalTypes, value \in IntervalValues, port_ok \in BOOLEAN :
             StartSystem(type, value, port_ok, "ok")
    \/ StartRecording("interval", FALSE, TRUE)
    \/ StopRecording
    \/ \E port_ok \in BOOLEAN : EnableGps(port_ok)
    \/ DisableGps
    \/ DisableGpsJoin
    \/ \E t \in ThreadIds : SavePoll(t)
    \/ \E t \in ThreadIds, faults \in PersistFaults : SaveTick(t, faults, TRUE)
    \/ \E t \in ThreadIds, line \in Lines : GpsRead(t, line)

PolicySpec == Init /\ [][PolicyNext]_vars

(***************************************************************************)
(* CaptureSpec: manual captures and the policy loop of one session, with    *)
(* the clock running, a moving receiver, a camera that can fail to open and *)
(* camera queues that can be empty when a snapshot reads them               *)
(***************************************************************************)
CaptureNext ==
    \/ AdvanceTime
    \/ SelectDevice
    \/ /\ NoLoopLive
       /\ \E type \in IntervalTypes, value \in IntervalValues, port_ok \in BOOLEAN,
             outcome \in {"ok", "open_failed"} :
             StartSystem(type, value, port_ok, outcome)
    \/ \E ready \in BOOLEAN : ManualCapture(ready)
    \/ ManualCaptureFrames
    \/ \E faults \in PersistFaults : ManualCapturePersist(faults)
    \/ \E t \in ThreadIds : SavePoll(t)
    \/ \E t \in ThreadIds, faults \in PersistFaults, ready \in BOOLEAN :
          SaveTick(t, faults, ready)
    \/ \E t \in ThreadIds, faults \in PersistFaults : SaveTickResume(t, faults)
    \/ \E t \in ThreadIds, line \in Lines : GpsRead(t, line)

CaptureSpec == Init /\ [][CaptureNext]_vars

(***************************************************************************)
(* MaskSpec: one session with the mask command, the acquisition loop, video *)
(* recording, the policy loop in time mode and manual captures               *)
(***************************************************************************)
MaskNext ==
    \/ AdvanceTime
    \/ SelectDevice
    \/ /\ NoLoopLive
       /\ \E port_ok \in BOOLEAN : StartSystem("time", 1, port_ok, "ok")
    \/ \E coords \in MaskEntries : SetMask(coords)
    \/ \E record_type \in RecordTypes : StartRecording(record_type, TRUE, TRUE)
    \/ ManualCapture(TRUE)
    \/ ManualCapturePersist({})
    \/ \E t \in ThreadIds : SavePoll(t)
    \/ \E t \in ThreadIds : SaveTick(t, {}, TRUE)
    \/ \E t \in ThreadIds, got_video \in BOOLEAN : AcquirePoll(t, got_video)
    \/ \E t \in ThreadIds, in_depth \in BOOLEAN, in_left \in BOOLEAN :
          AcquireWrite(t, in_depth, in_left)

MaskSpec == Init /\ [][MaskNext]_vars

(***************************************************************************)
(* RecoverySpec: one session at a time with the clock running, failing      *)
(* persists, the GPS toggled while a tick is between its check of self.gps  *)
(* and its use of it, and stop_system                                       *)
(***************************************************************************)
RecoveryNext ==
    \/ AdvanceTime
    \/ SelectDevice
    \/ /\ NoLoopLive
       /\ \E type \in IntervalTypes : StartSystem(type, 1, TRUE, "ok")
    \/ StopSystem
    \/ StopSystemJoinSave
    \/ StopSystemJoinCamera
    \/ StopSystemJoinGps
    \/ EnableGps(TRUE)
    \/ DisableGps
    \/ DisableGpsJoin
    \/ \E t \in ThreadIds : SavePoll(t)
    \/ \E t \in ThreadIds, faults \in PersistFaults : SaveTick(t, faults, TRUE)
    \/ \E t \in ThreadIds : SaveTickCheckGps(t)
    \/ \E t \in ThreadIds, faults \in PersistFaults : SaveTickReadGps(t, faults, TRUE)
    \/ \E t \in ThreadIds, line \in LifecycleLines : GpsRead(t, line)

RecoverySpec == Init /\ [][RecoveryNext]_vars

(***************************************************************************)
(* ConfigSpec: start requests of the UI with any interval entry, one        *)
(* session at a time, with the clock running                                 *)
(***************************************************************************)
ConfigNext ==
    \/ AdvanceTime
    \/ SelectDevice
    \/ /\ NoLoopLive
       /\ \E type \in IntervalTypes, entry \in IntervalEntries, port_ok \in BOOLEAN :
             StartRequest(type, entry, port_ok, "ok")
    \/ StopSystem
    \/ StopSystemJoinSave
    \/ StopSystemJoinCamera
    \/ StopSystemJoinGps
    \/ \E t \in ThreadIds : SavePoll(t)
    \/ \E t \in ThreadIds : SaveTick(t, {}, TRUE)
    \/ \E t \in ThreadIds, got_video \in BOOLEAN : AcquirePoll(t, got_video)
    \/ \E t \in ThreadIds, line \in LifecycleLines : GpsRead(t, line)

ConfigSpec == Init /\ [][ConfigNext]_vars

(***************************************************************************)
(* SwitchSpec: one session started with the interval type selected in the   *)
(* UI, the selection changed at any time, the clock running and a moving    *)
(* receiver                                                                  *)
(***************************************************************************)
SwitchNext ==
    \/ AdvanceTime
    \/ SelectDevice
    \/ /\ NoLoopLive
       /\ \E port_ok \in BOOLEAN : StartSystem(ui_interval_type, 1, port_ok, "ok")
    \/ \E type \in IntervalTypes : SelectIntervalType(type)
    \/ \E t \in ThreadIds : SavePoll(t)
    \/ \E t \in ThreadIds : SaveTick(t, {}, TRUE)
    \/ \E t \in ThreadIds, line \in Lines : GpsRead(t, line)

SwitchSpec == Init /\ [][SwitchNext]_vars

(***************************************************************************)
(* RestartSpec: start_system and stop_system in any order with the clock    *)
(* stopped, the joins of stop_system timing out or not, and the three       *)
(* background loops; a start finds the loops of an earlier start live or not *)
(***************************************************************************)
RestartNext ==
    \/ SelectDevice
    \/ \E port_ok \in BOOLEAN : StartSystem("time", 1, port_ok, "ok")
    \/ StopSystem
    \/ StopSystemJoinSave
    \/ StopSystemJoinCamera
    \/ StopSystemJoinGps
    \/ \E t \in ThreadIds : SavePoll(t)
    \/ \E t \in ThreadIds : SaveTick(t, {}, TRUE)
    \/ \E t \in ThreadIds, got_video \in BOOLEAN : AcquirePoll(t, got_video)
    \/ \E t \in ThreadIds, line \in LifecycleLines : GpsRead(t, line)

RestartSpec == Init /\ [][RestartNext]_vars

\* every thread that has a step to take takes it: the loops sleep at most
\* 0.1 s between two polls and the serial read returns after 1 s
RestartFairSpec ==
    /\ RestartSpec
    /\ \A t \in ThreadIds :
          /\ WF_vars(SavePoll(t))
          /\ WF_vars(SaveTick(t, {}, TRUE))
          /\ WF_vars(\E got_video \in BOOLEAN : AcquirePoll(t, got_video))
          /\ WF_vars(\E line \in LifecycleLines : GpsRead(t, line))

\* the image write of stream s of the last call succeeded and its metadata
\* write then raised
MetadataFailedAfterImage(s) ==
    /\ st_calls > 0
    /\ st_call.raised
    /\ st_call.failed = <<s, "save_metadata">>
    /\ <<s, "image_silent">> \notin st_call.faults

\* C1: when the image write of a stream succeeds and its metadata write then
\* fails, the image file of that stream is not on disk when the call raises.
C1_NoOrphanImage ==
    \A s \in Streams :
        MetadataFailedAfterImage(s) =>
            ImagePath(st_call.today, s, st_call.timestamp) \notin disk

\* a write of the last call failed: a populated stream whose image write or
\* metadata write was made to fail
WriteFailed ==
    \E s \in Streams :
        /\ st_call.frames[s] = "frame"
        /\ \E k \in FaultKinds : <<s, k>> \in st_call.faults

\* C18: save_frames_with_metadata raises whenever an image write or a metadata
\* write of the bundle fails, and when it returns normally every path of the
\* returned list is an image file on disk with its metadata sibling on disk.
C18_FailsOnAnyWriteFailure ==
    st_calls > 0 =>
        /\ WriteFailed => st_call.raised
        /\ ~st_call.raised =>
              \A i \in 1..Len(st_call.saved_files) :
                  /\ st_call.saved_files[i] \in disk
                  /\ JsonPath(st_call.saved_files[i]) \in disk

(***************************************************************************)
(* Start and stop of the system, recording handles (LifecycleSpec)          *)
(***************************************************************************)
\* start_system has returned and the camera it was to start is not running
CameraFailedToStart ==
    /\ ui_pc = "idle"
    /\ last_cmd.name = "start_system"
    /\ ~cam_running

\* C2: when the camera fails to open or start during start_system, the call
\* reports a failure and leaves the system idle: running is false, no policy
\* thread is live and the location source is not running.
C2_StartSystemAtomic ==
    CameraFailedToStart =>
        /\ last_cmd.raised
        /\ ~running
        /\ ~Live(save_pc, save_thread)
        /\ ~gps_running

\* C3: every video writer opened by a start-recording command is released
\* exactly once: never twice, and at least once when no command is executing
\* and no recording is active.
C3_ReleasedExactlyOnce ==
    \A g \in 1..recordings, s \in VideoStreams :
        /\ releases[g][s] <= 1
        /\ (ui_pc \in {"idle", "destroyed"} /\ ~recording_state.active)
               => releases[g][s] >= 1

\* C4: under every interleaving of the acquisition loop with a stop-recording
\* or stop-system command, no frame is written to a released video writer.
C4_NoWriteAfterRelease == ~late_write

\* C5: stop_system closes the camera device only when the policy loop and the
\* acquisition loop have exited, and closes the GPS serial connection only when
\* the GPS reader loop has exited.
C5_ReleaseAfterLoopExit ==
    [][ ui_pc = "ss_join_cam" =>
          /\ (device = "open" /\ device' # "open")
                => ~Live(save_pc, save_thread) /\ ~Live(cam_pc, camera_thread)
          /\ (serial_connection = "open" /\ serial_connection' # "open")
                => ~Live(gps_pc, gps_thread) ]_vars

\* stop_system has returned
StopSystemReturned ==
    /\ ui_pc = "idle"
    /\ last_cmd.name = "stop_system"

\* C6: after stop_system returns, recording_state.active is false,
\* camera.video_writers is None, the camera device is None, camera.running and
\* the running flag are false, and the location source, if any, is not running.
C6_StopSystemReleasesAll ==
    StopSystemReturned =>
        /\ ~recording_state.active
        /\ video_writers = 0
        /\ device = None
        /\ ~cam_running
        /\ ~running
        /\ gps # None => ~gps_running

\* stop_system has returned from a system that was recording video with the
\* location source started
C6_StoppedWhileRecording ==
    /\ StopSystemReturned
    /\ recordings > 0
    /\ \A s \in VideoStreams : releases[recordings][s] > 0
    /\ gps # None
    /\ serial_connection = "closed"
    /\ Live(cam_pc, camera_thread)

(***************************************************************************)
(* The capture policy (PolicySpec)                                          *)
(***************************************************************************)
\* the step is a tick of the policy loop
IsSaveTick == \E t \in ThreadIds : save_pc[t] = "tick" /\ save_pc'[t] = "poll"

\* C7: a tick whose triggered capture fails to persist leaves last_save_time
\* and the distance baseline gps.last_position unchanged.
C7_FailedPersistKeepsState ==
    [][ (IsSaveTick /\ last_tick'.persist = "failed")
            => UNCHANGED <<last_save_time, last_position>> ]_vars

\* C8: in distance-based mode the baseline fix gps.last_position, once set,
\* changes only at a tick that persisted a capture, and a tick triggers exactly
\* when the distance from that baseline to the current fix is at least the
\* threshold.
C8_DistanceBaseline ==
    [][ (IsSaveTick /\ interval_type = "distance" /\ gps # None)
            => /\ (last_position # NoFix /\ last_position' # last_position)
                     => last_tick'.persist = "ok"
               /\ last_tick'.trigger
                     <=> /\ current_coords # NoFix
                         /\ last_position # NoFix
                         /\ calculate_distance(last_position, current_coords)
                               >= interval_value * 1000 ]_vars

\* C9: a tick at which the motion filter reports stationary changes none of
\* last_save_time, gps.last_position and last_gps_coords.
C9_StationaryTickSkipped ==
    [][ (IsSaveTick /\ last_tick'.stationary)
            => /\ last_tick'.persist = "none"
               /\ UNCHANGED <<last_save_time, last_position, last_gps_coords>> ]_vars

\* C10: in time-based mode, once a capture has been persisted in the session,
\* a tick that the motion filter lets pass triggers if and only if the time
\* elapsed since the last persisted capture is at least the interval.
C10_TimeTrigger ==
    [][ (IsSaveTick /\ interval_type = "time" /\ capture_time >= 0
           /\ ~last_tick'.stationary)
            => (last_tick'.trigger <=> now - capture_time >= interval_value) ]_vars

\* C11: in time-based mode the first tick after start_system, taken at the
\* time of the start with no capture so far, triggers; and once a capture has
\* been persisted a tick triggers only when the interval has elapsed since it.
C11_FirstTickTriggers ==
    [][ (IsSaveTick /\ interval_type = "time")
            => /\ (last_tick.time = -1 /\ capture_time = -1 /\ now = start_time)
                     => last_tick'.trigger
               /\ (capture_time >= 0 /\ last_tick'.trigger)
                     => now - capture_time >= interval_value ]_vars

\* no command has returned since start_system returned
OnlyTicksSinceStart ==
    /\ ui_pc = "idle"
    /\ last_cmd.name = "start_system"

\* C12: with the location source disabled, in time-based mode, the ticks
\* after start_system persist no bundle while the time elapsed since the start
\* is below the interval, the first tick at which it has elapsed persists one
\* (frames available), no second one follows before another interval has
\* elapsed, and every bundle persisted carries the metadata gps = disabled.
C12_TimeCaptureWithoutLocation ==
    [][ (IsSaveTick /\ gps = None /\ interval_type = "time" /\ OnlyTicksSinceStart)
            => /\ now - start_time < interval_value => last_tick'.persist = "none"
               /\ (capture_time = -1 /\ now - start_time >= interval_value
                      /\ NonEmpty(SnapshotFrames))
                     => last_tick'.persist \in {"ok", "failed"}
               /\ (capture_time >= 0 /\ now - capture_time < interval_value)
                     => last_tick'.persist = "none"
               /\ last_persist'.caller = "_save_loop"
                     => last_persist'.enhanced_metadata.metadata = [gps |-> "disabled"] ]_vars

\* the first bundle of a session without location source has been persisted,
\* two seconds after the start with an interval of two seconds
C12_FirstBundleAfterInterval ==
    /\ OnlyTicksSinceStart
    /\ gps = None
    /\ interval_type = "time"
    /\ interval_value = 2
    /\ last_tick.persist = "ok"
    /\ capture_time = start_time + 2
    /\ last_persist.caller = "_save_loop"
    /\ last_persist.enhanced_metadata.metadata = [gps |-> "disabled"]

\* C13: in distance-based mode a tick taken without a location fix, because
\* self.gps is None or because the receiver has produced no fix yet, does not
\* trigger and persists nothing, for every interval value start_system is
\* called with.
C13_NoDistanceTriggerWithoutFix ==
    [][ (IsSaveTick /\ interval_type = "distance"
           /\ (gps = None \/ current_coords = NoFix))
            => /\ ~last_tick'.trigger
               /\ last_tick'.persist = "none"
               /\ last_persist' = NoPersist ]_vars

\* a tick of a distance-based session with the smallest interval has run
\* while the started location source had no fix yet
C13_TickedWithoutFix ==
    /\ OnlyTicksSinceStart
    /\ interval_type = "distance"
    /\ interval_value = 1
    /\ gps # None
    /\ gps_running
    /\ current_coords = NoFix
    /\ last_tick.time >= 0

(***************************************************************************)
(* Manual captures and snapshots (CaptureSpec)                              *)
(***************************************************************************)
\* the step is a step of manual_capture
IsManualCaptureStep ==
    /\ ui_pc' # ui_pc
    /\ ui_pc \in {"mc_get", "mc_persist"} \/ ui_pc' \in {"mc_get", "mc_persist"}

\* C14: manual_capture leaves last_save_time, gps.last_position and
\* last_gps_coords unchanged, whether its persist succeeds or fails, and with
\* them what the next tick of the policy loop evaluates.
C14_ManualCaptureKeepsPolicyState ==
    [][ IsManualCaptureStep
            => /\ UNCHANGED <<last_save_time, last_position, last_gps_coords>>
               /\ TriggerEvaluation' = TriggerEvaluation ]_vars

\* a manual capture whose persist failed has returned, after an automatic
\* capture of the session and later than it
C14_ManualCaptureFailedAfterCapture ==
    /\ ui_pc = "idle"
    /\ last_cmd = [name |-> "manual_capture", raised |-> TRUE, gps_error |-> FALSE]
    /\ last_persist.caller = "manual_capture"
    /\ last_persist.raised
    /\ capture_time >= 0
    /\ last_save_time < now

\* C15: a manual capture of the running system persists its snapshot whatever
\* the elapsed time, the distance moved and the motion state; what it persists
\* is tagged capture_type = manual and what the policy loop persists is tagged
\* capture_type = auto.
C15_ManualCaptureAlwaysPersists ==
    [][ /\ (ui_pc = "mc_persist" /\ ui_pc' = "idle" /\ ~SnapshotRaises)
              => last_persist'.caller = "manual_capture"
        /\ last_persist'.caller = "manual_capture"
              => last_persist'.enhanced_metadata.capture_type = "manual"
        /\ last_persist'.caller = "_save_loop"
              => last_persist'.enhanced_metadata.capture_type = "auto" ]_vars

\* a manual capture has persisted a snapshot with a fix, at a time at which
\* the policy loop found the receiver stationary and no trigger is due
C15_ManualCaptureWhileStationary ==
    /\ ui_pc = "idle"
    /\ last_persist.caller = "manual_capture"
    /\ ~last_persist.raised
    /\ last_persist.enhanced_metadata =
          EnhancedMetadata(Metadata(current_coords), "manual")
    /\ current_coords # NoFix
    /\ last_tick.stationary
    /\ last_tick.time = now
    /\ ~TriggerEvaluation.should_capture

(***************************************************************************)
(* The motion filter (MotionSpec)                                           *)
(***************************************************************************)
\* both coordinates of fix b are within the threshold of those of fix a
WithinThreshold(a, b) ==
    /\ Abs(b[1] - a[1]) <= gps_threshold
    /\ Abs(b[2] - a[2]) <= gps_threshold

\* C16: check_motion returns true when the baseline or the current fix is
\* absent; otherwise false when both coordinate differences are at most the
\* threshold and true when either exceeds it.
C16_MotionFilterResult ==
    motion_call.n > 0 =>
        IF motion_call.last = NoFix \/ motion_call.current = NoFix
        THEN motion_call.is_moving
        ELSE motion_call.is_moving
                <=> ~WithinThreshold(motion_call.last, motion_call.current)

\* check_motion has returned false for a fix that differs from the baseline
\* by exactly the threshold in both coordinates
C16_StationaryAtThreshold ==
    /\ motion_call.n > 0
    /\ motion_call.last # NoFix
    /\ motion_call.current # NoFix
    /\ Abs(motion_call.current[1] - motion_call.last[1]) = gps_threshold
    /\ Abs(motion_call.current[2] - motion_call.last[2]) = gps_threshold
    /\ ~motion_call.is_moving

\* C17: over a sequence of check_motion calls last_gps_coords is replaced,
\* by the current fix, only in a call that reports motion, so that it is the
\* fix of the last call that reported motion, and a fix that differs from that
\* one by more than the threshold is reported as moving.
C17_MotionBaseline ==
    [][ motion_call'.n = motion_call.n + 1
            => /\ last_gps_coords' # last_gps_coords
                     => motion_call'.is_moving /\ last_gps_coords' = motion_call'.current
               /\ ~motion_call'.is_moving => UNCHANGED last_gps_coords
               /\ last_gps_coords' = motion_call'.moving_fix
               /\ (motion_call.moving_fix # NoFix /\ motion_call'.current # NoFix
                      /\ ~WithinThreshold(motion_call.moving_fix, motion_call'.current))
                     => motion_call'.is_moving ]_vars

\* a fix within the threshold of the fix of the call before it has been
\* reported as moving, because it is farther than that from the baseline
C17_DriftDetected ==
    /\ motion_call.n >= 3
    /\ motion_call.is_moving
    /\ motion_call.last # NoFix
    /\ motion_call.previous # NoFix
    /\ motion_call.current # NoFix
    /\ motion_call.previous # motion_call.last
    /\ WithinThreshold(motion_call.previous, motion_call.current)

(***************************************************************************)
(* Empty bundles (CaptureSpec)                                              *)
(***************************************************************************)
\* no stream of the bundle holds a frame
NoPopulatedStream(frames) == \A s \in Streams : frames[s] # "frame"

\* C19: a save_frames_with_metadata call whose bundle has no populated stream
\* writes no image and no metadata file and returns an empty list, and a
\* triggered tick of the policy loop whose bundle is empty makes no call and
\* leaves the last-capture time unchanged.
C19_EmptyBundleNoArtifact ==
    [][ /\ (last_persist'.caller # "none" /\ NoPopulatedStream(last_persist'.frames))
              => /\ last_persist'.written = {}
                 /\ last_persist'.saved_files = <<>>
                 /\ ~last_persist'.raised
        /\ (IsSaveTick /\ last_tick'.trigger /\ NoPopulatedStream(SnapshotFrames))
              => /\ last_persist' = NoPersist
                 /\ UNCHANGED <<storageVars, last_save_time, capture_time>> ]_vars

\* a tick has triggered while the camera had no frame of any stream, and has
\* made no call
C19_TriggeredTickWithEmptyBundle ==
    /\ running
    /\ last_tick.trigger
    /\ last_tick.persist = "none"
    /\ last_tick.time > start_time
    /\ NoPopulatedStream(SnapshotFrames)

(***************************************************************************)
(* Queue reads of a capture (CaptureSpec)                                   *)
(***************************************************************************)
\* C20: neither a triggered tick of the policy loop nor a manual capture
\* waits inside a queue read for a stream that has no frame available.
C20_CaptureNeverWaits ==
    /\ \A t \in ThreadIds : save_pc[t] # "get"
    /\ ui_pc # "mc_get"

(***************************************************************************)
(* The last-capture state (PolicySpec)                                      *)
(***************************************************************************)
\* C21: a tick of the policy loop that has persisted a capture leaves
\* last_save_time at the time of the tick and, when the tick had a fix,
\* gps.last_position at that fix, whatever the interval type.
C21_CaptureUpdatesTimeAndLocation ==
    [][ (IsSaveTick /\ last_tick'.persist = "ok")
            => /\ last_save_time' = last_tick'.time
               /\ TriggerEvaluation.coords # NoFix
                     => last_position' = TriggerEvaluation.coords ]_vars

(***************************************************************************)
(* The mask (MaskSpec)                                                      *)
(***************************************************************************)
\* the pixels of the mask rectangle: none when the rectangle has no width or
\* no height
MaskRectangle ==
    IF mask_coords[3] <= mask_coords[1] \/ mask_coords[4] <= mask_coords[2]
    THEN {}
    ELSE Rectangle(mask_coords)

\* every pixel of the mask rectangle is black in the frame
BlackedOut(frame) == \A p \in MaskRectangle : frame[p] = 0

\* C22: the mask rectangle is black in every image the acquisition loop
\* displays, in every image an automatic or manual capture persists and in
\* every frame the acquisition loop appends to a video file.
C22_MaskAppliedBeforeDisplayAndSave ==
    /\ (\E t \in ThreadIds : cam_pc[t] = "loop" /\ cam_running)
          => \A s \in {"rgb", "depth", "ir"} : BlackedOut(DisplayFrame(s))
    /\ last_persist.caller # "none"
          => \A s \in Streams :
                 last_persist.frames[s] = "frame" => BlackedOut(CaptureFrame(s))
    /\ (\E t \in ThreadIds : cam_pc[t] = "write" /\ latest_rgb_video # None)
          => BlackedOut(VideoFrame("rgb"))

(***************************************************************************)
(* Termination of the loops (RestartFairSpec)                               *)
(***************************************************************************)
\* C23: a background loop that is live while its running flag is false
\* eventually terminates: the policy loop with self.running, the acquisition
\* loop with camera.running, the GPS reader loop with gps.running.
C23_LoopsTerminateAfterStop ==
    \A t \in ThreadIds :
        /\ (Live(save_pc, t) /\ ~running) ~> ~Live(save_pc, t)
        /\ (Live(cam_pc, t) /\ ~cam_running) ~> ~Live(cam_pc, t)
        /\ (Live(gps_pc, t) /\ ~gps_running) ~> ~Live(gps_pc, t)

(***************************************************************************)
(* Errors of a tick (RecoverySpec)                                          *)
(***************************************************************************)
\* C24: a policy loop thread ends only at its loop condition and only when
\* self.running is false, whatever a tick raises.
C24_LoopExitsOnlyWhenStopped ==
    [][ \A t \in ThreadIds :
            (Live(save_pc, t) /\ ~Live(save_pc', t))
                => (save_pc[t] = "poll" /\ ~running) ]_vars

\* a tick has raised because self.gps was set to None between its check and
\* its use, and the loop is back at its loop condition in a running system
C24_TickRaisedLoopGoesOn ==
    /\ running
    /\ last_tick.error
    /\ gps = None
    /\ \E t \in ThreadIds : save_pc[t] = "poll"

(***************************************************************************)
(* Writers of the capture-policy state (PolicySpec)                         *)
(***************************************************************************)
\* C25: while the system is running, a step that is not a step of the policy
\* loop (a command of the UI thread, a step of another loop) leaves
\* last_save_time, gps.last_position and last_gps_coords unchanged.
C25_OnlyTickMutatesPolicyState ==
    [][ (running /\ save_pc' = save_pc)
            => UNCHANGED <<last_save_time, last_position, last_gps_coords>> ]_vars

(***************************************************************************)
(* The interval entry of a start request (ConfigSpec)                       *)
(***************************************************************************)
\* C26: the system is never running with interval_value <= 0, and a start
\* request that is rejected starts no camera, no location source and no
\* policy loop and leaves the interval settings as they were.
C26_NonPositiveIntervalRejected ==
    [][ /\ running' => interval_value' > 0
        /\ (last_cmd'.name = "start_rejected" /\ last_cmd.name # "start_rejected")
              => UNCHANGED <<running, cam_running, gps_running, device,
                             serial_connection, save_thread, save_pc, cam_pc, gps_pc,
                             interval_type, interval_value>> ]_vars

\* a start request with a non-positive entry has been rejected and the system
\* is idle
C26_RejectedAndIdle ==
    /\ last_cmd.name = "start_rejected"
    /\ ~running
    /\ ~cam_running
    /\ ~gps_running
    /\ NoLoopLive
    /\ device = None

(***************************************************************************)
(* The interval type selected while running (SwitchSpec)                    *)
(***************************************************************************)
\* C27: every tick of the policy loop evaluates its trigger with the interval
\* type that is selected in the UI when the tick runs, and a change of the
\* selection changes neither last_save_time nor gps.last_position.
C27_SwitchTakesEffectOnNextTick ==
    [][ /\ IsSaveTick => interval_type = ui_interval_type
        /\ ui_interval_type' # ui_interval_type
              => UNCHANGED <<last_save_time, last_position>> ]_vars

(***************************************************************************)
(* A location source that cannot be started (PolicySpec)                    *)
(***************************************************************************)
\* C28: a start_system whose start_gps raises (no port found, or the port
\* cannot be opened) does not raise: afterwards self.gps is None, the system
\* is running with its camera and its policy loop, and every tick of that
\* session in time-based mode at which the interval has elapsed and a frame
\* is available triggers and persists a bundle with the metadata
\* gps = disabled.
C28_LocationFailureAtStartRecoverable ==
    [][ /\ (last_cmd'.gps_error /\ last_cmd' # last_cmd)
              => /\ gps' = None
                 /\ ~last_cmd'.raised
                 /\ running'
                 /\ cam_running'
                 /\ Live(save_pc', save_thread')
        /\ (IsSaveTick /\ last_cmd.gps_error /\ interval_type = "time"
               /\ now - last_save_time >= interval_value
               /\ ~NoPopulatedStream(SnapshotFrames))
              => /\ gps = None
                 /\ last_tick'.trigger
                 /\ last_persist'.caller = "_save_loop"
                 /\ last_persist'.enhanced_metadata.metadata = [gps |-> "disabled"] ]_vars

\* a session started with a location source that failed to start has
\* persisted a time-triggered bundle
C28_CaptureAfterLocationFailure ==
    /\ last_cmd.gps_error
    /\ running
    /\ gps = None
    /\ interval_type = "time"
    /\ last_tick.persist = "ok"
    /\ capture_time >= start_time + interval_value
    /\ last_persist.enhanced_metadata.metadata = [gps |-> "disabled"]

(***************************************************************************)
(* ReaderSpec: the GPS reader of one or more sessions, fed position         *)
(* sentences with a fix, lines that do not parse and position sentences     *)
(* with an unusable time field, while the location source is switched on    *)
(* and off and the system is started and stopped                            *)
(***************************************************************************)
ReaderNext ==
    \/ SelectDevice
    \/ /\ NoLoopLive
       /\ \E port_ok \in BOOLEAN : StartSystem("time", 1, port_ok, "ok")
    \/ StopSystem
    \/ StopSystemJoinSave
    \/ StopSystemJoinCamera
    \/ StopSystemJoinGps
    \/ \E port_ok \in BOOLEAN : EnableGps(port_ok)
    \/ DisableGps
    \/ DisableGpsJoin
    \/ \E t \in ThreadIds, line \in Sentences : GpsRead(t, line)

ReaderSpec == Init /\ [][ReaderNext]_vars

\* C29: a sentence the reader cannot use (one that does not parse, or one
\* whose fields cannot be read) leaves current_coords unchanged, invokes no
\* callback and leaves the reader thread in its loop, and a position sentence
\* with a fix makes that fix the current one and invokes the callback; so the
\* current fix is always that of the last valid position sentence.
C29_MalformedSentenceSkipped ==
    [][ /\ last_read'.line[1] \in {"malformed", "bad_field"}
              => /\ UNCHANGED current_coords
                 /\ ~last_read'.callback
                 /\ \A t \in ThreadIds : gps_pc[t] = "loop" => gps_pc'[t] = "loop"
        /\ last_read'.line[1] = "RMC"
              => /\ current_coords' = last_read'.line[2]
                 /\ last_read'.callback
                 /\ UNCHANGED gps_pc ]_vars

(***************************************************************************)
(* SharedSpec: the acquisition loop and the GPS reader next to everything   *)
(* that reads what they write: the policy loop in both modes, manual        *)
(* captures and the commands of the UI                                      *)
(***************************************************************************)
SharedNext ==
    \/ SelectDevice
    \/ /\ NoLoopLive
       /\ \E type \in IntervalTypes, port_ok \in BOOLEAN :
             StartSystem(type, 1, port_ok, "ok")
    \/ StopSystem
    \/ StopSystemJoinSave
    \/ StopSystemJoinCamera
    \/ StopSystemJoinGps
    \/ \E port_ok \in BOOLEAN : EnableGps(port_ok)
    \/ DisableGps
    \/ DisableGpsJoin
    \/ ManualCapture(TRUE)
    \/ ManualCapturePersist({})
    \/ \E t \in ThreadIds : SavePoll(t)
    \/ \E t \in ThreadIds : SaveTick(t, {}, TRUE)
    \/ \E t \in ThreadIds, got_video \in BOOLEAN : AcquirePoll(t, got_video)
    \/ \E t \in ThreadIds, line \in Lines : GpsRead(t, line)

SharedSpec == Init /\ [][SharedNext]_vars

\* C30: a step that changes camera.latest_rgb_video is an iteration of a
\* running acquisition loop, and a step that changes the current_coords of
\* the GPSManager in use is a read of the GPS reader loop; neither is a step
\* of a UI command, of manual_capture or of the policy loop.
C30_SharedFieldsHaveOneWriter ==
    [][ /\ latest_rgb_video' # latest_rgb_video
              => /\ \E t \in ThreadIds : cam_pc[t] = "loop"
                 /\ cam_running
                 /\ last_persist' = NoPersist
                 /\ last_read' = NoRead
                 /\ UNCHANGED <<ui_pc, last_cmd, save_pc, last_tick, gps_pc>>
        /\ (gps # None /\ current_coords' # current_coords)
              => /\ last_read'.line[1] = "RMC"
                 /\ \E t \in ThreadIds : gps_pc[t] = "loop"
                 /\ last_persist' = NoPersist
                 /\ UNCHANGED <<ui_pc, last_cmd, save_pc, last_tick, cam_pc>> ]_vars

\* both fields have been written, the location source has been switched off
\* and on again since the start, a tick of the policy loop in distance mode has
\* read the fix and a manual capture has read both
C30_WrittenAndRead ==
    /\ latest_rgb_video = "frame"
    /\ gps # None
    /\ current_coords \in Fixes
    /\ interval_type = "distance"
    /\ last_position = current_coords
    /\ last_position # <<1, 1>>
    /\ last_cmd.name = "manual_capture"
    /\ last_tick.time >= 0

(***************************************************************************)
(* FlowSpec: the Start button of the recording options dialog, clicked in   *)
(* any state of the system, and the Stop button, with the policy loop and   *)
(* the acquisition loop of every start and no GPS port                      *)
(***************************************************************************)
FlowNext ==
    \/ SelectDevice
    \/ StartFlow("time", 1, FALSE, "ok")
    \/ \E record_type \in RecordTypes, include_video \in BOOLEAN, dir_ok \in BOOLEAN :
          StartFlowRecording(record_type, include_video, dir_ok)
    \/ StartFlowRecordingClear
    \/ StopSystem
    \/ StopSystemClear
    \/ StopSystemJoinSave
    \/ StopSystemJoinCamera
    \/ \E t \in ThreadIds : SavePoll(t)
    \/ \E t \in ThreadIds : SaveTick(t, {}, TRUE)
    \/ \E t \in ThreadIds, got_video \in BOOLEAN : AcquirePoll(t, got_video)
    \/ \E t \in ThreadIds : AcquireWrite(t, TRUE, TRUE)

FlowSpec == Init /\ [][FlowNext]_vars

\* C31: whenever recording_state.active is true the system is running, in
\* every state the start flow (start_system, then toggle_recording) and
\* stop_system lead to, the start flow being invoked in any state, also a
\* second time without a stop in between.
C31_RecordingOnlyWhileRunning == recording_state.active => running

\* the start flow has been invoked a second time while the policy loop of the
\* first session was still alive, and a recording is active
C31_RecordingAfterSecondStart ==
    /\ ui_pc = "idle"
    /\ recording_state.active
    /\ running
    /\ \A t \in ThreadIds : Live(save_pc, t)

(***************************************************************************)
(* File names (NamingSpec)                                                  *)
(***************************************************************************)
\* the image files on disk
ImagesOnDisk == {f \in disk : f.ext # "json"}

\* the path string of an image file on disk
ImageString(f) == PathString(f.dir, f.stream, f.stamp)

CaptureDate(timestamp) == timestamp.date

\* C33: every file a save_frames_with_metadata call leaves on disk lies in
\* the directory named by the date of the capture timestamp, which is also
\* the capture_date its metadata records, whatever the date is when the call
\* writes.
C33_StoredUnderCaptureDate ==
    \A f \in disk :
        /\ CaptureDate(f.stamp) = f.stamp.date
        /\ f.dir = CaptureDate(f.stamp)

(***************************************************************************)
(* DistanceSpec: calls of GPSManager.calculate_distance with fixes in whole *)
(* degrees. The floating-point formula is computed in fixed point: angles   *)
(* in microradians, sines in millionths, the haversine term a in 10^-12.    *)
(* Every division rounds towards zero, so that, as in floating point, the   *)
(* value for -x is the negative of the value for x. The results are within  *)
(* 0.1 % of the floating-point ones for the angles of DegreeFixes.          *)
(***************************************************************************)
DegreeLatitudes == {-1, 0, 1}
DegreeLongitudes == {-1, 0, 1, 2}
DegreeFixes == DegreeLatitudes \X DegreeLongitudes

Micro == 1000000

\* x / y rounded towards zero
Quotient(x, y) == IF x < 0 THEN -((-x) \div y) ELSE x \div y

\* math.radians: degrees to microradians
radians(deg) == Quotient(deg * 3141593, 180)

\* math.sin of an angle in microradians, in millionths: x - x^3/6
sin(x) == x - Quotient(Quotient(x * x, Micro) * x, 6 * Micro)

\* math.cos of an angle in microradians, in millionths: 1 - x^2/2
cos(x) == Micro - Quotient(x * x, 2 * Micro)

\* the largest r in lo..hi with r * r <= n, by bisection
RECURSIVE SqrtBetween(_, _, _)
SqrtBetween(n, lo, hi) ==
    IF lo = hi THEN lo
    ELSE LET mid == (lo + hi + 1) \div 2
         IN IF mid * mid <= n THEN SqrtBetween(n, mid, hi)
            ELSE SqrtBetween(n, lo, mid - 1)

\* math.sqrt on integers below 2^30: the largest r with r * r <= n
sqrt(n) == SqrtBetween(n, 0, 32767)

\* math.atan2(y, x) for y >= 0 in millionths and x > 0 in ten-thousandths,
\* in microradians: t - t^3/3 with t = y/x
atan2(y, x) ==
    LET t == Quotient(y * 10000, x)
    IN t - Quotient(Quotient(t * t, Micro) * t, 3 * Micro)

\* a calculate_distance with the Earth's radius in kilometres: the variant
\* that C34_DistanceFunction tells apart from the code
calculate_distance_kilometres(coord1, coord2) ==
    LET dlat == radians(coord2[1]) - radians(coord1[1])
        dlon == radians(coord2[2]) - radians(coord1[2])
        sin_dlat == sin(Quotient(dlat, 2))
        sin_dlon == sin(Quotient(dlon, 2))
        cos_cos == Quotient(Quotient(cos(radians(coord1[1])), 100)
                                * Quotient(cos(radians(coord2[1])), 100), 10000)
        a == sin_dlat * sin_dlat + Quotient(sin_dlon * sin_dlon, 10000) * cos_cos
        c == 2 * atan2(sqrt(a), sqrt((Micro - Quotient(a, Micro)) * 100))
    IN Quotient(Quotient(EarthRadius, 1000) * c, Micro)

\* calculate_distance(coord1, coord2) in metres, for fixes <<latitude,
\* longitude>> in degrees:
\*   a = sin(dlat/2)**2 + cos(lat1) * cos(lat2) * sin(dlon/2)**2   (in 10^-12)
\*   c = 2 * atan2(sqrt(a), sqrt(1-a))                             (in 10^-6)
\*   distance = R * c
calculate_distance_degrees(coord1, coord2) ==
    LET dlat == radians(coord2[1]) - radians(coord1[1])
        dlon == radians(coord2[2]) - radians(coord1[2])
        sin_dlat == sin(Quotient(dlat, 2))
        sin_dlon == sin(Quotient(dlon, 2))
        cos_cos == Quotient(Quotient(cos(radians(coord1[1])), 100)
                                * Quotient(cos(radians(coord2[1])), 100), 10000)
        a == sin_dlat * sin_dlat + Quotient(sin_dlon * sin_dlon, 10000) * cos_cos
        c == 2 * atan2(sqrt(a), sqrt((Micro - Quotient(a, Micro)) * 100))
    IN Quotient(Quotient(EarthRadius, 1000) * c, 1000)

\* the first call calculate_distance(coord1, coord2) of a behaviour; reverse
\* is what the call with the arguments exchanged returns
CalculateDistance(coord1, coord2) ==
    /\ distance_call = NoDistanceCall
    /\ distance_call' = [coord1 |-> coord1, coord2 |-> coord2,
                         distance |-> calculate_distance_degrees(coord1, coord2),
                         reverse |-> calculate_distance_degrees(coord2, coord1)]
    /\ UNCHANGED <<storageVars, now, ui_pc, selected_device, running, recording_state,
                   save_thread, save_pc, policyVars, gpsVars, cameraVars, writerVars,
                   late_write, last_cmd, last_tick, capture_time, start_time,
                   last_persist, motion_call, last_read, save_local, uiVars>>
    /\ UNCHANGED stale_rgb

DistanceNext ==
    /\ distance_call = NoDistanceCall
    /\ \E coord1 \in DegreeFixes, coord2 \in DegreeFixes :
          CalculateDistance(coord1, coord2)

DistanceSpec == Init /\ [][DistanceNext]_vars

\* C34: calculate_distance returns 0 for two equal fixes, returns the same
\* distance when its arguments are exchanged, and returns 111,320 m within
\* 1 % for the fixes (0, 0) and (0, 1 degree of longitude).
C34_DistanceFunction ==
    distance_call # NoDistanceCall =>
        /\ distance_call.coord1 = distance_call.coord2 => distance_call.distance = 0
        /\ distance_call.distance = distance_call.reverse
        /\ (distance_call.coord1 = <<0, 0>> /\ distance_call.coord2 = <<0, 1>>)
              => Abs(distance_call.distance - 111320) * 100 <= 111320

\* the distance from (0, 0) to (0, 1 degree) has been calculated
C34_OneDegreeAtEquator ==
    /\ distance_call.coord1 = <<0, 0>>
    /\ distance_call.coord2 = <<0, 1>>
    /\ distance_call.distance > 0
    /\ distance_call.reverse > 0

\* the threads of one kind that have been started and have not returned
LiveThreads(pc) == {t \in ThreadIds : Live(pc, t)}

\* C35: while the system is running at most one policy loop thread and at
\* most one acquisition loop thread is alive, whatever sequence of
\* start_system and stop_system calls came before
C35_OneLoopOfEachKind ==
    running =>
        /\ Cardinality(LiveThreads(save_pc)) <= 1
        /\ Cardinality(LiveThreads(cam_pc)) <= 1

\* the streams of the last call whose image and metadata had both been
\* written when the call failed on a later stream
SavedCompletely ==
    {i \in 1..Len(st_call.saved_files) :
        <<st_call.saved_files[i].stream, "image_silent">> \notin st_call.faults}

\* C36: when save_frames_with_metadata raises, the image file and the
\* metadata file of every stream of that call that had been saved completely
\* before the failure are not on disk.
C36_EarlierPairsRemoved ==
    st_call.raised =>
        \A i \in SavedCompletely :
            /\ st_call.saved_files[i] \notin disk
            /\ JsonPath(st_call.saved_files[i]) \notin disk

\* a call failed on its third stream after two streams were saved completely
C36_FailedAfterTwoPairs ==
    /\ st_call.raised
    /\ Len(st_call.saved_files) = 2
    /\ Cardinality(SavedCompletely) = 2

(***************************************************************************)
(* DriftSpec: one session in distance mode with an interval of 2 m and a    *)
(* receiver carried to and fro over a stretch of 11 units, every fix        *)
(* farther from gps.last_position and from last_gps_coords than the fix     *)
(* before it                                                                *)
(***************************************************************************)
DriftLatitudes == {1, 2, 11, 12}
DriftLines == {<<"RMC", <<lat, 1>>>> : lat \in DriftLatitudes}

\* fix is farther from baseline than the fix the receiver reported before it
FartherFrom(baseline, fix) ==
    IF baseline = NoFix \/ current_coords = NoFix
    THEN TRUE
    ELSE calculate_distance(baseline, fix) > calculate_distance(baseline, current_coords)

\* fix moves away from both positions the policy measures from,
\* gps.last_position and last_gps_coords: the trigger and the motion filter
\* read a fix only through its differences to these two, so they see what
\* they see of a receiver that moves on in a straight line
MovesAway(fix) ==
    /\ FartherFrom(last_position, fix)
    /\ FartherFrom(last_gps_coords, fix)

DriftNext ==
    \/ SelectDevice
    \/ /\ NoLoopLive
       /\ StartSystem("distance", 2, TRUE, "ok")
    \/ \E t \in ThreadIds : SavePoll(t)
    \/ \E t \in ThreadIds : SaveTick(t, {}, TRUE)
    \/ \E t \in ThreadIds, line \in DriftLines :
          /\ MovesAway(line[2])
          /\ GpsRead(t, line)

DriftSpec == Init /\ [][DriftNext]_vars

\* the policy loop sleeps 0.1 s between two ticks
DriftFairSpec ==
    /\ DriftSpec
    /\ \A t \in ThreadIds :
          /\ WF_vars(SavePoll(t))
          /\ WF_vars(SaveTick(t, {}, TRUE))

\* C37: in distance mode, when the receiver goes on reporting fixes that move
\* away from the position of the last capture, a tick eventually persists a
\* bundle.
C37_DistanceCaptureEventually ==
    []<>(last_read.callback) => <>(last_tick.persist = "ok")

\* C38: whenever no command is executing, camera.video_writers is set if and
\* only if recording is active with video, also after a toggle_recording
\* that failed to start.
C38_WritersOpenIffVideoRecording ==
    ui_pc = "idle" =>
        (video_writers # 0 <=> (recording_state.active /\ recording_state.video))

\* video recording was started, stopped and started again, and is active
C38_SecondVideoRecordingActive ==
    /\ ui_pc = "idle"
    /\ recordings = 2
    /\ video_writers = 2
    /\ recording_state.active
    /\ recording_state.video

(***************************************************************************)
(* SessionSpec: sessions one after the other (start_system, stop_system,    *)
(* start_system) with the acquisition loop, the policy loop and manual      *)
(* captures, the clock running                                              *)
(***************************************************************************)
SessionNext ==
    \/ AdvanceTime
    \/ SelectDevice
    \/ /\ NoLoopLive
       /\ StartSystem("time", 1, FALSE, "ok")
    \/ StopSystem
    \/ StopSystemJoinSave
    \/ StopSystemJoinCamera
    \/ ManualCaptureRequest(TRUE)
    \/ ManualCapturePersist({})
    \/ \E t \in ThreadIds : SavePoll(t)
    \/ \E t \in ThreadIds : SaveTick(t, {}, TRUE)
    \/ \E t \in ThreadIds, got_video \in BOOLEAN : AcquirePoll(t, got_video)

SessionSpec == Init /\ [][SessionNext]_vars

\* C39: while the system is running, no automatic or manual capture persists
\* an RGB frame that the acquisition loop received before the last
\* stop_system.
C39_NoFrameOfPreviousSession ==
    (running /\ last_persist # NoPersist /\ last_persist.frames["rgb"] = "frame")
        => ~stale_rgb

\* everything a manual capture could touch: the files, the position of the
\* UI thread, the policy state, the camera and the location source
CaptureState ==
    <<storageVars, ui_pc, running, recording_state, save_thread, save_pc, policyVars,
      gpsVars, cameraVars, writerVars, late_write, last_tick, capture_time>>

\* C40: a manual capture requested while the system is not running persists
\* nothing, takes no snapshot of the frames and changes no state.
C40_ManualCaptureIgnoredWhenStopped ==
    [][ (ui_pc = "idle" /\ ~running) =>
            /\ ui_pc' \notin {"mc_get", "mc_persist"}
            /\ (last_cmd'.name = "manual_capture" /\ last_cmd' # last_cmd) =>
                   /\ UNCHANGED CaptureState
                   /\ last_persist' = NoPersist ]_vars

\* a manual capture was requested after the system was stopped, while the
\* camera still held an RGB frame
C40_RequestedAfterStop ==
    /\ ui_pc = "idle"
    /\ ~running
    /\ last_cmd.name = "manual_capture"
    /\ latest_rgb_video # None
    /\ disk = {}

====
